---- MODULE Spec2Model ----
(***************************************************************************)
(* Model of IA_ProcesarDocumentos.                                         *)
(*                                                                         *)
(*  - Spec       : orchestrator instances (agente_procesar_cliente.py)     *)
(*                 running concurrently on one deployment: run lock,       *)
(*                 stale-lock recovery, folder processing.                 *)
(*  - SpecFolder : one orchestrator instance run again and again on a      *)
(*                 deployment with NumFiles source files: retention sweep, *)
(*                 marker gate, stability gate, grouping, reader calls.    *)
(*  - SpecLedger : the reconciliation engine of                            *)
(*                 lector_liquidaciones_to_json_v1.py, a pure function of  *)
(*                 the oracle text and the totals extracted from the PDF.  *)
(*                                                                         *)
(* In Spec and SpecFolder each action is one file-system visible step of   *)
(* main() or _process_folder(), so that instances interleave the way       *)
(* processes do.                                                           *)
(*                                                                         *)
(* Time is counted in seconds.  A file's st_mtime is kept as its age,      *)
(* now - st_mtime, which is what the code compares; an age stops growing   *)
(* once it is past the one threshold it is compared with.  Amounts are     *)
(* counted in thousandths (1000 = 1.00) so that printing with two decimals *)
(* is a real rounding.                                                     *)
(***************************************************************************)
EXTENDS Integers, Sequences, FiniteSets, TLC

\* ---------------------------------------------------------------- bounds
NumProcs == 2       \* orchestrator instances of Spec
SharedFiles == 1    \* source files of the deployment of Spec
NumFiles == 3       \* source files of the deployment of SpecFolder
MaxTicks == 2       \* clock steps
MaxRuns == 3        \* runs started in Spec
FolderRuns == 2     \* runs started in SpecFolder
RouteFiles == 2     \* source files of the deployment of SpecRoute

\* ------------------------------------------------------ program constants
RETENTION_DAYS == 7
FILE_STABLE_SECONDS == 120
LOCK_STALE_HOURS == 12

Procs == 1 .. NumProcs
Files == 1 .. NumFiles

\* main() handles, per client, the folder TARJETAS and then the folder COMPRAS.
TARJETAS == 1
COMPRAS == 2
NumFolders == 2

\* The folder a source file lies in: file 1 in TARJETAS, the others in COMPRAS.
\* File ids are ordered as the lower-cased file names are.
FolderOf(f) == IF f = 1 THEN TARJETAS ELSE COMPRAS

\* The file names of a deployment, without their extension: per deployment the
\* name of file 1, file 2, ...  In the first deployment the first two COMPRAS
\* files are two pages of one voucher, in the second they are the two files
\* "PROVEEDOR X FAC 0001-00001234.pdf" and "PROVEEDOR X 0001-00001234 pag2.pdf".
DeploymentNames ==
    { << "VISA 05-2024", "ACME 12-05 0001-00001234", "acme FAC 12-05 0001-00001234",
         "nota sin numero", "zeta 1-2 12345678" >>,
      << "VISA 05-2024", "PROVEEDOR X 0001-00001234 pag2", "PROVEEDOR X FAC 0001-00001234",
         "nota sin numero", "zeta 1-2 12345678" >> }

\* Steps by which the clock advances: exactly the lock staleness threshold and
\* exactly the retention period (both longer than the stability delay).
TickSteps == { LOCK_STALE_HOURS * 60 * 60, RETENTION_DAYS * 24 * 60 * 60 }

\* Ages stop growing here: one second past the threshold they are compared with.
LockAgeCap == LOCK_STALE_HOURS * 60 * 60 + 1
MarkerAgeCap == RETENTION_DAYS * 24 * 60 * 60 + 1
FileAgeCap == FILE_STABLE_SECONDS

Min(a, b) == IF a < b THEN a ELSE b

\* What _load_client_config gives for the client folder: the folder is mapped
\* to a client id, the table is read and does not hold the folder, the table
\* cannot be read (config_error is set and both dictionaries are empty).
RouteLookups == { "mapped", "unmapped", "unavailable" }

\* The client id the table maps the folder to, and the default of line 649.
MappedId == 7
DefaultId == 1

\* Outcomes of the configuration stage of main().
CfgKinds == { "ok", "idcliente_cfgerr", "idcliente_noroute", "no_paths", "no_reader" }

\* A source file as the folder listing shows it: stable, just written, empty.
FileKinds == { [age |-> FILE_STABLE_SECONDS, size |-> 1],
               [age |-> 0, size |-> 1],
               [age |-> FILE_STABLE_SECONDS, size |-> 0] }

VARIABLES
    ticks,      \* number of clock steps taken (bounds the model)
    runs,       \* number of runs started (bounds the model)
    lock,       \* LOG/agente_procesar_cliente.lock: [owner, age], owner 0 = no file
    fileMeta,   \* per source file present in the folders: [age, size, name]
    marker,     \* PROC_AGENTE_IA/<file>.log: [status, age, group_size]
    routes,     \* what the client route lookup gives for the client folder
    proc,       \* per orchestrator instance: position and locals of main()
    ledger      \* one reader run on one document: oracle text, extracted totals, output

vars == << ticks, runs, lock, fileMeta, marker, routes, proc, ledger >>

\* The variables of the orchestrator.
orchVars == << ticks, runs, lock, fileMeta, marker, routes, proc >>

\* No reader run is followed.
NoLedger == [stage |-> "off"]

NoLock == [owner |-> 0, age |-> 0]
NoMarker == [status |-> "none", age |-> 0, group_size |-> 0]
ZeroCnt == [processed |-> 0, skipped |-> 0, errors |-> 0, not_ready |-> 0]

\* Locals of one run of main().  The fields sawOld to unlinked record what
\* happened to the lock file between the stale check and the acquisition; the
\* fields calls to retry record what the run saw and did to the source files.
IdleProc ==
    [ pc |-> "idle",
      force_reprocess |-> FALSE,
      sawOld |-> FALSE,          \* at the stale check the lock file was older than the threshold
      sawFresh |-> FALSE,        \* at the stale check a lock file not older than it existed
      lockMade |-> FALSE,        \* another instance created the lock since the check
      lockGone |-> FALSE,        \* another instance removed the lock since the check
      unlinked |-> FALSE,        \* this run deleted a lock file before acquiring
      acquired |-> FALSE,        \* _try_acquire_lock returned True
      exit |-> "none",           \* return value of main()
      folder |-> 0,              \* folder being processed
      groups |-> << >>,          \* units still to be handed to the reader
      ok |-> FALSE,              \* result of the last reader call
      calls |-> [f \in Files |-> "no"],    \* reader outcome per file handed to it: no, ok, failed
      wrote |-> [f \in Files |-> "none"],  \* STATUS this run wrote per file
      pre |-> [f \in Files |-> "unseen"],  \* marker status at entry of _process_folder
      seen |-> [f \in Files |-> "unseen"], \* marker status the enumeration found
      retry |-> {},              \* files that had an ERROR marker at entry while stable
      ready |-> [f \in Files |-> "unseen"], \* whether the file met the stability requirement at enumeration
      cfg |-> "none",            \* outcome of the configuration stage
      idcliente |-> 0,           \* resolved_idcliente, 0 before it is resolved
      events |-> {},             \* kinds of the events put in the run log and the client log
      result |-> "none",         \* RESULT= of the summary line of the client log and of the run log
      warned |-> FALSE,          \* a line starting with WARN: was printed
      raised |-> FALSE,          \* an exception is leaving main()
      lost |-> {},               \* << file, marker status >> of the unit the previous run had handed to
                                 \* the reader when it was killed, with the status its enumeration found
      cnt |-> ZeroCnt,           \* counters of the running _process_folder call
      total |-> ZeroCnt ]        \* total_processed, total_skipped, ...

\* None of Python, and an optional value v, as sequences of length 0 and 1.
None == << >>

SetOfSeq(s) == { s[i] : i \in 1 .. Len(s) }

SetOfNames(names) == { names[i] : i \in 1 .. NumFiles }

\* ------------------------------------------------ file names and group keys
\*
\* A file name stem is a string; None is the empty string for a token and the
\* empty sequence for a key.

Digits == {"0", "1", "2", "3", "4", "5", "6", "7", "8", "9"}

UpperLetters ==
    {"A", "B", "C", "D", "E", "F", "G", "H", "I", "J", "K", "L", "M",
     "N", "O", "P", "Q", "R", "S", "T", "U", "V", "W", "X", "Y", "Z"}

LowerToUpper ==
    [c \in {"a", "b", "c", "d", "e", "f", "g", "h", "i", "j", "k", "l", "m",
            "n", "o", "p", "q", "r", "s", "t", "u", "v", "w", "x", "y", "z"} |->
        CASE c = "a" -> "A" [] c = "b" -> "B" [] c = "c" -> "C" [] c = "d" -> "D"
          [] c = "e" -> "E" [] c = "f" -> "F" [] c = "g" -> "G" [] c = "h" -> "H"
          [] c = "i" -> "I" [] c = "j" -> "J" [] c = "k" -> "K" [] c = "l" -> "L"
          [] c = "m" -> "M" [] c = "n" -> "N" [] c = "o" -> "O" [] c = "p" -> "P"
          [] c = "q" -> "Q" [] c = "r" -> "R" [] c = "s" -> "S" [] c = "t" -> "T"
          [] c = "u" -> "U" [] c = "v" -> "V" [] c = "w" -> "W" [] c = "x" -> "X"
          [] c = "y" -> "Y" [] c = "z" -> "Z"]

\* The character at position i of s, "" outside s.
CharAt(s, i) == IF i \in 1 .. Len(s) THEN SubSeq(s, i, i) ELSE ""

\* \w of the regular expressions: letter, digit or underscore.
IsWordChar(c) == c \in Digits \cup UpperLetters \cup DOMAIN LowerToUpper \cup {"_"}

\* \b before position i: exactly one of the characters i-1 and i is a word character.
Boundary(s, i) == IsWordChar(CharAt(s, i - 1)) # IsWordChar(CharAt(s, i))

\* \d{n} at position i.
AllDigits(s, i, n) == \A j \in i .. (i + n - 1) : CharAt(s, j) \in Digits

\* [-_/] at position i.
IsSep(s, i) == CharAt(s, i) \in {"-", "_", "/"}

\* The image of one character under str.upper(), under
\* .replace("_", "-").replace("/", "-") and under re.sub(r"\s+", "", s).
CharImage(how, c) ==
    CASE how = "upper" -> (IF c \in DOMAIN LowerToUpper THEN LowerToUpper[c] ELSE c)
      [] how = "dash" -> (IF c \in {"_", "/"} THEN "-" ELSE c)
      [] how = "nospace" -> (IF c = " " THEN "" ELSE c)

RECURSIVE MapChars(_, _, _)
\* s from position i on, every character replaced by its image.
MapChars(s, i, how) ==
    IF i > Len(s) THEN "" ELSE CharImage(how, CharAt(s, i)) \o MapChars(s, i + 1, how)

Upper(s) == MapChars(s, 1, "upper")

Dashed(s) == MapChars(s, 1, "dash")

WithoutSpaces(s) == MapChars(s, 1, "nospace")

\* The character classes \s and [\W_].
InClass(class, c) ==
    CASE class = "space" -> c = " "
      [] class = "nonalnum" -> ~IsWordChar(c) \/ c = "_"

RECURSIVE CollapseFrom(_, _, _)
\* re.sub(<class>+, " ", s): every maximal run of characters of the class
\* becomes one space.
CollapseFrom(s, i, class) ==
    IF i > Len(s) THEN ""
    ELSE IF InClass(class, CharAt(s, i))
         THEN (IF i > 1 /\ InClass(class, CharAt(s, i - 1)) THEN "" ELSE " ")
              \o CollapseFrom(s, i + 1, class)
         ELSE CharAt(s, i) \o CollapseFrom(s, i + 1, class)

RECURSIVE Strip(_)
\* str.strip()
Strip(s) ==
    IF Len(s) = 0 THEN s
    ELSE IF CharAt(s, 1) = " " THEN Strip(SubSeq(s, 2, Len(s)))
    ELSE IF CharAt(s, Len(s)) = " " THEN Strip(SubSeq(s, 1, Len(s) - 1))
    ELSE s

RECURSIVE ReplaceAll(_, _, _)
\* s.replace(old, " ")
ReplaceAll(s, i, old) ==
    IF i > Len(s) THEN ""
    ELSE IF Len(old) > 0 /\ i + Len(old) - 1 <= Len(s) /\ SubSeq(s, i, i + Len(old) - 1) = old
         THEN " " \o ReplaceAll(s, i + Len(old), old)
         ELSE CharAt(s, i) \o ReplaceAll(s, i + 1, old)

\* The candidates a regular-expression search ranks: the match that starts
\* leftmost wins, and among those the one the backtracking order tries first
\* (rank, smaller first).
FirstMatch(cands) ==
    CHOOSE m \in cands : \A n \in cands :
        m.start < n.start \/ (m.start = n.start /\ m.rank <= n.rank)

\* _looks_like_date_token: \b(\d{1,2}[-_/]\d{1,2}(?:[-_/]\d{2,4})?)\b
_looks_like_date_token(s) ==
    LET cands ==
          { [start |-> i, len |-> a + 1 + b + (IF c = 0 THEN 0 ELSE 1 + c),
             rank |-> (2 - a) * 100 + (2 - b) * 10 + (IF c = 0 THEN 4 ELSE 4 - c)] :
              << i, a, b, c >> \in
                { t \in (1 .. Len(s)) \X (1 .. 2) \X (1 .. 2) \X {0, 2, 3, 4} :
                    /\ Boundary(s, t[1])
                    /\ AllDigits(s, t[1], t[2])
                    /\ IsSep(s, t[1] + t[2])
                    /\ AllDigits(s, t[1] + t[2] + 1, t[3])
                    /\ t[4] > 0 => /\ IsSep(s, t[1] + t[2] + 1 + t[3])
                                   /\ AllDigits(s, t[1] + t[2] + t[3] + 2, t[4])
                    /\ Boundary(s, t[1] + t[2] + 1 + t[3] + (IF t[4] = 0 THEN 0 ELSE 1 + t[4])) } }
    IN IF cands = {} THEN ""
       ELSE LET m == FirstMatch(cands)
            IN Dashed(SubSeq(s, m.start, m.start + m.len - 1))

\* _looks_like_comprobante_token: \b(\d{1,4}\s*[-_/]\s*\d{4,8})\b, the white
\* space removed, or else \b(\d{8,14})\b.
_looks_like_comprobante_token(s) ==
    LET Spaces(i, w) == \A j \in i .. (i + w - 1) : CharAt(s, j) = " "
        pairs ==
          { [start |-> t[1], len |-> t[2] + t[3] + 1 + t[4] + t[5],
             rank |-> (4 - t[2]) * 1000 + (1 - t[3]) * 100 + (1 - t[4]) * 10 + (8 - t[5])] :
              t \in { u \in (1 .. Len(s)) \X (1 .. 4) \X (0 .. 1) \X (0 .. 1) \X (4 .. 8) :
                        /\ Boundary(s, u[1])
                        /\ AllDigits(s, u[1], u[2])
                        /\ Spaces(u[1] + u[2], u[3])
                        /\ IsSep(s, u[1] + u[2] + u[3])
                        /\ Spaces(u[1] + u[2] + u[3] + 1, u[4])
                        /\ AllDigits(s, u[1] + u[2] + u[3] + 1 + u[4], u[5])
                        /\ Boundary(s, u[1] + u[2] + u[3] + 1 + u[4] + u[5]) } }
        longrun ==
          { [start |-> t[1], len |-> t[2], rank |-> 14 - t[2]] :
              t \in { u \in (1 .. Len(s)) \X (8 .. 14) :
                        /\ Boundary(s, u[1])
                        /\ AllDigits(s, u[1], u[2])
                        /\ Boundary(s, u[1] + u[2]) } }
    IN IF pairs # {}
       THEN LET m == FirstMatch(pairs)
            IN Dashed(WithoutSpaces(SubSeq(s, m.start, m.start + m.len - 1)))
       ELSE IF longrun # {}
       THEN LET m == FirstMatch(longrun) IN SubSeq(s, m.start, m.start + m.len - 1)
       ELSE ""

\* The words line 406 removes from the provider.
VoucherWords == {"FAC", "FACT", "FACTURA", "NC", "NOTA", "CREDITO", "COMPROBANTE", "OK"}

RECURSIVE WithoutVoucherWords(_, _)
\* re.sub(r"\b(FAC|...|OK)\b", " ", provider): a whole word of the list becomes
\* one space.
WithoutVoucherWords(s, i) ==
    IF i > Len(s) THEN ""
    ELSE LET hits == { w \in VoucherWords :
                         /\ Boundary(s, i)
                         /\ i + Len(w) - 1 <= Len(s)
                         /\ SubSeq(s, i, i + Len(w) - 1) = w
                         /\ Boundary(s, i + Len(w)) }
         IN IF hits # {}
            THEN LET w == CHOOSE v \in hits : TRUE
                 IN " " \o WithoutVoucherWords(s, i + Len(w))
            ELSE CharAt(s, i) \o WithoutVoucherWords(s, i + 1)

\* _extract_provider_date_comprobante: None, or (provider, date, voucher).
_extract_provider_date_comprobante(stem) ==
    LET s == Strip(CollapseFrom(stem, 1, "space"))
        date_tok == _looks_like_date_token(s)
        comp_tok == _looks_like_comprobante_token(s)
        cleaned == ReplaceAll(ReplaceAll(WithoutVoucherWords(Upper(s), 1), 1, Upper(date_tok)),
                              1, Upper(comp_tok))
        provider == Strip(CollapseFrom(CollapseFrom(cleaned, 1, "nonalnum"), 1, "space"))
    IN IF date_tok = "" \/ comp_tok = "" THEN << >>
       ELSE IF Len(provider) < 3 THEN << >>
       ELSE << provider, date_tok, comp_tok >>

\* The keys of the file names of the deployments.
StemKeys ==
    [stem \in UNION { SetOfNames(names) : names \in DeploymentNames } |->
        _extract_provider_date_comprobante(stem)]

\* The key of a file of the deployment.
KeyOf(stem) == StemKeys[stem]

\* ------------------------------------------------------------ pure helpers

\* Variant of _lock_is_stale that ignores the age of the lock file.
LockIsStale_AnyAge(l) == l.owner # 0

\* _lock_is_stale: the file exists and is older than stale_hours.
_lock_is_stale(l) ==
    /\ l.owner # 0
    /\ l.age > LOCK_STALE_HOURS * 60 * 60

\* _is_file_stable: non-empty and not modified for stable_seconds.
_is_file_stable(meta) ==
    /\ meta.size > 0
    /\ meta.age >= FILE_STABLE_SECONDS

\* _cleanup_old_files on PROC_AGENTE_IA of one folder: every file of the
\* directory older than the retention period is deleted, markers included.
_cleanup_old_files(mk, folder) ==
    [f \in Files |->
        IF /\ FolderOf(f) = folder
           /\ mk[f].status # "none"
           /\ mk[f].age > RETENTION_DAYS * 24 * 60 * 60
        THEN NoMarker ELSE mk[f]]

\* _read_status_from_log: the text after STATUS= of the marker.
_read_status_from_log(m) == m.status

\* Variant of the marker gate that skips every file with a marker, whatever
\* its status, unless reprocessing is forced.
PassesMarkerGate_SkipAnyMarker(m, force) ==
    IF m.status # "none" THEN force ELSE TRUE

\* Variant of the marker gate that does not look at force_reprocess.
PassesMarkerGate_IgnoresForce(m, force) ==
    IF m.status # "none" THEN m.status = "ERROR" ELSE TRUE

\* Variant of the marker gate that never skips a file.
PassesMarkerGate_NeverSkip(m, force) == TRUE

\* The gate of the enumeration loop (lines 473-487): FALSE when the file is
\* skipped because of its marker.
PassesMarkerGate(m, force) ==
    IF m.status # "none"
    THEN IF force THEN TRUE
         ELSE _read_status_from_log(m) = "ERROR"
    ELSE TRUE

\* _iter_root_files: the supported files lying in the folder.
_iter_root_files(folder, meta) == {f \in DOMAIN meta : FolderOf(f) = folder}

RECURSIVE SortGroup_ByName(_, _)
\* Variant of the sort of a group that looks at the names only.
SortGroup_ByName(S, meta) ==
    IF S = {} THEN << >>
    ELSE LET m == CHOOSE x \in S : \A y \in S : x <= y
         IN << m >> \o SortGroup_ByName(S \ {m}, meta)

RECURSIVE SortGroup(_, _)
\* A group sorted by (st_mtime, lower-cased name): the oldest file first.
SortGroup(S, meta) ==
    IF S = {} THEN << >>
    ELSE LET m == CHOOSE x \in S : \A y \in S :
                     \/ meta[x].age > meta[y].age
                     \/ (meta[x].age = meta[y].age /\ x <= y)
         IN << m >> \o SortGroup(S \ {m}, meta)

RECURSIVE SortUnits(_)
\* Units sorted by the name of their first member.
SortUnits(U) ==
    IF U = {} THEN << >>
    ELSE LET g == CHOOSE x \in U : \A y \in U : x[1] <= y[1]
         IN << g >> \o SortUnits(U \ {g})

\* _group_compras_candidates: files sharing a key form one group, files without
\* a key are singletons.
_group_compras_candidates(pending, meta) ==
    LET keys == {KeyOf(meta[f].name) : f \in pending} \ {None}
        grouped == { SortGroup({f \in pending : KeyOf(meta[f].name) = k}, meta) : k \in keys }
        singles == { << f >> : f \in {y \in pending : KeyOf(meta[y].name) = None} }
    IN SortUnits(grouped \cup singles)

\* Lines 497-504: singleton units in name order, or the pre-grouped units for
\* COMPRAS (PREAGRUPAR_COMPRAS defaults to on).
UnitsOf(pending, folder, meta) ==
    IF folder = COMPRAS /\ pending # {}
    THEN _group_compras_candidates(pending, meta)
    ELSE SortUnits({ << f >> : f \in pending })

AddCnt(a, b) ==
    [ processed |-> a.processed + b.processed,
      skipped |-> a.skipped + b.skipped,
      errors |-> a.errors + b.errors,
      not_ready |-> a.not_ready + b.not_ready ]

\* ------------------------------------------------------------------- Init

\* No run yet: no lock, no marker, the source files lying in the folders, the
\* route lookup in one of the given conditions.
InitRoutes(present, lookups) ==
    /\ ticks = 0
    /\ routes \in lookups
    /\ runs = 0
    /\ lock = NoLock
    /\ \E names \in DeploymentNames : \E kinds \in [present -> FileKinds] :
         fileMeta = [f \in present |->
                       [age |-> kinds[f].age, size |-> kinds[f].size, name |-> names[f]]]
    /\ marker = [f \in Files |-> NoMarker]
    /\ proc = [p \in Procs |-> IdleProc]

\* The same with the client folder mapped to its client id in the lookup.
InitOn(present) == InitRoutes(present, {"mapped"})

Init == InitOn(1 .. SharedFiles) /\ ledger = NoLedger

InitFolder == InitOn(Files) /\ ledger = NoLedger

\* ---------------------------------------------------------------- actions

\* The lock file is older than the staleness threshold (the case the stale-lock
\* statements are about, written apart from the code's test).
LockOlderThanThreshold(l) == l.owner # 0 /\ l.age >= LOCK_STALE_HOURS * 3600 + 1

\* The file meets the stability requirement (written apart from the code's test).
StableAt(meta) == meta.size >= 1 /\ ~(meta.age < FILE_STABLE_SECONDS)

\* Instances between their stale check and their acquisition attempt.
InWindow(r) == r.pc \in {"unlink", "acquire"}

\* The instances in that window learn that instance p created the lock file.
NoteMade(pr, p) ==
    [q \in Procs |-> IF q # p /\ InWindow(pr[q])
                     THEN [pr[q] EXCEPT !.lockMade = TRUE] ELSE pr[q]]

\* The instances in that window learn that instance p removed the lock file.
NoteGone(pr, p) ==
    [q \in Procs |-> IF q # p /\ InWindow(pr[q])
                     THEN [pr[q] EXCEPT !.lockGone = TRUE] ELSE pr[q]]

\* The record of the acquisition window is dropped once main() moves on.
DropWindow(r) ==
    [r EXCEPT !.sawOld = FALSE, !.sawFresh = FALSE, !.lockMade = FALSE,
              !.lockGone = FALSE, !.unlinked = FALSE]

\* Runs are followed up to MaxRuns on the deployment of Spec and up to
\* FolderRuns on the larger one of SpecFolder.
RunBound(meta) == IF Cardinality(DOMAIN meta) > SharedFiles THEN FolderRuns ELSE MaxRuns

\* main() lines 566-582: a run starts, REPROCESAR_TODO is read from the
\* environment, and the stale check looks at the lock file.
Start(p) ==
    /\ proc[p].pc = "idle"
    /\ runs < RunBound(fileMeta)
    /\ runs' = runs + 1
    /\ \E fr \in BOOLEAN :
         proc' = [proc EXCEPT ![p] =
                    [IdleProc EXCEPT
                       !.force_reprocess = fr,
                       !.lost = proc[p].lost,
                       !.sawOld = LockOlderThanThreshold(lock),
                       !.sawFresh = (lock.owner # 0 /\ ~LockOlderThanThreshold(lock)),
                       !.pc = IF _lock_is_stale(lock) THEN "unlink" ELSE "acquire"]]
    /\ UNCHANGED << ticks, lock, fileMeta, marker, routes, ledger >>

\* Variant of the stale-lock deletion that leaves the lock file in place.
UnlinkStale_KeepsLock(p) ==
    /\ proc[p].pc = "unlink"
    /\ proc' = [proc EXCEPT ![p] = [@ EXCEPT !.pc = "acquire"]]
    /\ UNCHANGED << ticks, runs, lock, fileMeta, marker, routes, ledger >>

\* main() lines 583-587: lock_path.unlink(); a missing file raises and is swallowed.
UnlinkStale(p) ==
    /\ proc[p].pc = "unlink"
    /\ lock' = NoLock
    /\ LET mine == [proc[p] EXCEPT !.unlinked = (lock.owner # 0), !.pc = "acquire"]
           pr == [proc EXCEPT ![p] = mine]
       IN proc' = IF lock.owner # 0 THEN NoteGone(pr, p) ELSE pr
    /\ UNCHANGED << ticks, runs, fileMeta, marker, routes, ledger >>

\* _try_acquire_lock: O_CREAT | O_EXCL; main() lines 589-592 return 0 on failure.
_try_acquire_lock(p) ==
    /\ proc[p].pc = "acquire"
    /\ IF lock.owner # 0
       THEN /\ proc' = [proc EXCEPT ![p] = [@ EXCEPT !.pc = "return", !.exit = "0"]]
            /\ lock' = lock
       ELSE /\ lock' = [owner |-> p, age |-> 0]
            /\ proc' = NoteMade([proc EXCEPT ![p] = [@ EXCEPT !.acquired = TRUE, !.pc = "config"]], p)
    /\ UNCHANGED << ticks, runs, fileMeta, marker, routes, ledger >>

\* The configuration outcomes the lookup allows: --idcliente fails on a table
\* that cannot be read and can lack a route only in a table that was read.
CfgKindsFor(lookup) ==
    IF lookup = "unavailable" THEN CfgKinds \ {"idcliente_noroute"}
    ELSE CfgKinds \ {"idcliente_cfgerr"}

\* Lines 639-666 for the client folder: the warning for a table that cannot be
\* read, the client id of the folder, and the entry for a folder the table
\* does not hold.
ResolveClient(r, lookup) ==
    LET config_error == lookup = "unavailable"
        resolved_idcliente == IF lookup = "mapped" THEN MappedId ELSE DefaultId
        ruta_no_informada == lookup # "mapped"
    IN [r EXCEPT !.idcliente = resolved_idcliente,
                 !.warned = config_error \/ ruta_no_informada,
                 !.events = (IF config_error THEN {"CONFIG|WARN"} ELSE {})
                            \cup (IF ruta_no_informada THEN {"CLIENTE|ERROR"} ELSE {}),
                 !.total.errors = IF ruta_no_informada THEN 1 ELSE 0]

\* main() lines 595-666: client paths and reader scripts; a fatal configuration
\* returns 2, --idcliente without a route returns 0, both through the finally;
\* otherwise the client id of the folder is resolved.
Configure(p) ==
    /\ proc[p].pc = "config"
    /\ \E c \in CfgKindsFor(routes) :
         proc' = [proc EXCEPT ![p] =
                    IF c = "ok"
                    THEN [ResolveClient(DropWindow(@), routes) EXCEPT
                             !.pc = "folder", !.folder = TARJETAS, !.cfg = c]
                    ELSE [DropWindow(@) EXCEPT !.pc = "release", !.cfg = c,
                             !.exit = IF c = "idcliente_noroute" THEN "0" ELSE "2"]]
    /\ UNCHANGED << ticks, runs, lock, fileMeta, marker, routes, ledger >>

\* Variant of the end of a folder in which a run that counted errors returns 2.
FolderDone_ErrorExit(r) ==
    LET t == [r EXCEPT !.total = AddCnt(r.total, r.cnt)]
    IN IF r.folder = NumFolders
       THEN [t EXCEPT !.pc = "release", !.folder = NumFolders + 1,
                      !.result = IF t.total.errors = 0 THEN "OK" ELSE "ERROR",
                      !.exit = IF t.total.errors > 0 THEN "2" ELSE "0"]
       ELSE [t EXCEPT !.pc = "folder", !.folder = r.folder + 1]

\* _process_folder returned (line 563): main() adds the counters to the totals
\* (678-705) and goes on with the next folder, or writes the client log and
\* the run log with their RESULT= and returns 0 (708-739).
FolderDone(r) ==
    LET t == [r EXCEPT !.total = AddCnt(r.total, r.cnt)]
    IN IF r.folder = NumFolders
       THEN [t EXCEPT !.pc = "release", !.exit = "0", !.folder = NumFolders + 1,
                      !.result = IF t.total.errors = 0 THEN "OK" ELSE "ERROR"]
       ELSE [t EXCEPT !.pc = "folder", !.folder = r.folder + 1]

\* _process_folder lines 460-504: retention sweep, enumeration, marker gate,
\* stability gate, grouping.
ScanFolder(p) ==
    /\ proc[p].pc = "folder"
    /\ LET r == proc[p]
           here == _iter_root_files(r.folder, fileMeta)
           swept == _cleanup_old_files(marker, r.folder)
           gated == {f \in here : PassesMarkerGate(swept[f], r.force_reprocess)}
           pending_files == {f \in gated : _is_file_stable(fileMeta[f])}
           groups == UnitsOf(pending_files, r.folder, fileMeta)
           scanned == [r EXCEPT
                         !.pre = [f \in Files |-> IF f \in here THEN marker[f].status ELSE r.pre[f]],
                         !.seen = [f \in Files |-> IF f \in here THEN swept[f].status ELSE r.seen[f]],
                         !.retry = r.retry \cup {f \in here : marker[f].status = "ERROR"
                                                              /\ StableAt(fileMeta[f])},
                         !.ready = [f \in Files |->
                                      IF f \in here
                                      THEN (IF StableAt(fileMeta[f]) THEN "yes" ELSE "no")
                                      ELSE r.ready[f]],
                         !.cnt = [processed |-> 0,
                                  skipped |-> Cardinality(here \ gated),
                                  errors |-> 0,
                                  not_ready |-> Cardinality(gated \ pending_files)],
                         !.groups = groups,
                         !.pc = "reader"]
       IN /\ marker' = swept
          /\ proc' = [proc EXCEPT ![p] = IF groups = << >> THEN FolderDone(scanned) ELSE scanned]
    /\ UNCHANGED << ticks, runs, lock, fileMeta, routes, ledger >>

\* Variant of the reader call that writes the OK markers of the unit before the
\* reader has returned.
RunReader_MarksFirst(p) ==
    /\ proc[p].pc = "reader"
    /\ LET r == proc[p]
           group == Head(r.groups)
       IN /\ \E ok \in BOOLEAN :
               proc' = [proc EXCEPT ![p] =
                          [r EXCEPT !.ok = ok,
                                    !.calls = [f \in Files |->
                                                 IF f \in SetOfSeq(group)
                                                 THEN (IF ok THEN "ok" ELSE "failed")
                                                 ELSE r.calls[f]],
                                    !.cnt.processed = r.cnt.processed + Len(group),
                                    !.pc = "mark"]]
          /\ marker' = [f \in Files |->
                          IF f \in SetOfSeq(group)
                          THEN [status |-> "OK", age |-> 0, group_size |-> Len(group)]
                          ELSE marker[f]]
    /\ UNCHANGED << ticks, runs, lock, fileMeta, routes, ledger >>

\* _process_folder lines 506-519: the reader is invoked once for the next unit;
\* its exit status is the environment's choice.
RunReader(p) ==
    /\ proc[p].pc = "reader"
    /\ LET r == proc[p]
           group == Head(r.groups)
       IN \E ok \in BOOLEAN :
            proc' = [proc EXCEPT ![p] =
                       [r EXCEPT !.ok = ok,
                                 !.calls = [f \in Files |->
                                              IF f \in SetOfSeq(group)
                                              THEN (IF ok THEN "ok" ELSE "failed")
                                              ELSE r.calls[f]],
                                 !.cnt.processed = r.cnt.processed + Len(group),
                                 !.pc = "mark"]]
    /\ UNCHANGED << ticks, runs, lock, fileMeta, marker, routes, ledger >>

\* Variant of the marker step in which a failed unit ends the folder: the
\* units after it are not attempted.
WriteMarkers_AbortOnError(p) ==
    /\ proc[p].pc = "mark"
    /\ LET r == proc[p]
           group == Head(r.groups)
           members == SetOfSeq(group)
           status == IF r.ok THEN "OK" ELSE "ERROR"
           rest == IF r.ok THEN Tail(r.groups) ELSE << >>
           marked == [r EXCEPT
                        !.wrote = [f \in Files |-> IF f \in members THEN status ELSE r.wrote[f]],
                        !.cnt.errors = r.cnt.errors + (IF r.ok THEN 0 ELSE Len(group)),
                        !.groups = rest,
                        !.pc = "reader"]
       IN /\ marker' = [f \in Files |->
                          IF f \in members
                          THEN [status |-> status, age |-> 0, group_size |-> Len(group)]
                          ELSE marker[f]]
          /\ proc' = [proc EXCEPT ![p] =
                        IF rest = << >> THEN FolderDone(marked) ELSE marked]
    /\ UNCHANGED << ticks, runs, lock, fileMeta, routes, ledger >>

\* Variant of the marker step that writes the marker of the first file of the
\* unit only.
WriteMarkers_FirstOnly(p) ==
    /\ proc[p].pc = "mark"
    /\ LET r == proc[p]
           group == Head(r.groups)
           members == { Head(group) }
           status == IF r.ok THEN "OK" ELSE "ERROR"
           marked == [r EXCEPT
                        !.wrote = [f \in Files |-> IF f \in members THEN status ELSE r.wrote[f]],
                        !.cnt.errors = r.cnt.errors + (IF r.ok THEN 0 ELSE Len(group)),
                        !.groups = Tail(r.groups),
                        !.pc = "reader"]
       IN /\ marker' = [f \in Files |->
                          IF f \in members
                          THEN [status |-> status, age |-> 0, group_size |-> Len(group)]
                          ELSE marker[f]]
          /\ proc' = [proc EXCEPT ![p] =
                        IF Tail(r.groups) = << >> THEN FolderDone(marked) ELSE marked]
    /\ UNCHANGED << ticks, runs, lock, fileMeta, routes, ledger >>

\* Variant of the marker step that counts a failed unit as one error, whatever
\* the number of its files.
WriteMarkers_CountsUnits(p) ==
    /\ proc[p].pc = "mark"
    /\ LET r == proc[p]
           group == Head(r.groups)
           members == SetOfSeq(group)
           status == IF r.ok THEN "OK" ELSE "ERROR"
           marked == [r EXCEPT
                        !.wrote = [f \in Files |-> IF f \in members THEN status ELSE r.wrote[f]],
                        !.cnt.errors = r.cnt.errors + (IF r.ok THEN 0 ELSE 1),
                        !.groups = Tail(r.groups),
                        !.pc = "reader"]
       IN /\ marker' = [f \in Files |->
                          IF f \in members
                          THEN [status |-> status, age |-> 0, group_size |-> Len(group)]
                          ELSE marker[f]]
          /\ proc' = [proc EXCEPT ![p] =
                        IF Tail(r.groups) = << >> THEN FolderDone(marked) ELSE marked]
    /\ UNCHANGED << ticks, runs, lock, fileMeta, routes, ledger >>

\* _process_folder lines 521-561: one marker per file of the unit.
WriteMarkers(p) ==
    /\ proc[p].pc = "mark"
    /\ LET r == proc[p]
           group == Head(r.groups)
           members == SetOfSeq(group)
           status == IF r.ok THEN "OK" ELSE "ERROR"
           marked == [r EXCEPT
                        !.wrote = [f \in Files |-> IF f \in members THEN status ELSE r.wrote[f]],
                        !.cnt.errors = r.cnt.errors + (IF r.ok THEN 0 ELSE Len(group)),
                        !.groups = Tail(r.groups),
                        !.pc = "reader"]
       IN /\ marker' = [f \in Files |->
                          IF f \in members
                          THEN [status |-> status, age |-> 0, group_size |-> Len(group)]
                          ELSE marker[f]]
          /\ proc' = [proc EXCEPT ![p] =
                        IF Tail(r.groups) = << >> THEN FolderDone(marked) ELSE marked]
    /\ UNCHANGED << ticks, runs, lock, fileMeta, routes, ledger >>

\* Variant of the release that is not in a finally: the lock is deleted only
\* when main() comes to one of its return statements.
ReleaseLock_OnReturnOnly(p) ==
    /\ proc[p].pc = "release"
    /\ lock' = IF proc[p].raised THEN lock ELSE NoLock
    /\ LET pr == [proc EXCEPT ![p] = [@ EXCEPT !.pc = "return"]]
       IN proc' = IF lock.owner # 0 /\ ~proc[p].raised THEN NoteGone(pr, p) ELSE pr
    /\ UNCHANGED << ticks, runs, fileMeta, marker, routes, ledger >>

\* _release_lock in the finally of main(): whatever lock file exists is deleted.
_release_lock(p) ==
    /\ proc[p].pc = "release"
    /\ lock' = NoLock
    /\ LET pr == [proc EXCEPT ![p] = [@ EXCEPT !.pc = "return"]]
       IN proc' = IF lock.owner # 0 THEN NoteGone(pr, p) ELSE pr
    /\ UNCHANGED << ticks, runs, fileMeta, marker, routes, ledger >>

\* main() has returned, or the exception has left it; the process ends.
Return(p) ==
    /\ proc[p].pc = "return"
    /\ proc' = [proc EXCEPT ![p] = IdleProc]
    /\ UNCHANGED << ticks, runs, lock, fileMeta, marker, routes, ledger >>

\* The process is killed while it holds the lock: nothing is released, and the
\* unit whose reader call had returned gets no marker.
Crash(p) ==
    /\ proc[p].pc \in {"config", "folder", "reader", "mark", "release"}
    /\ proc' = [proc EXCEPT ![p] =
                  [IdleProc EXCEPT !.lost = IF proc[p].pc = "mark"
                                            THEN { << f, proc[p].seen[f] >> :
                                                     f \in SetOfSeq(Head(proc[p].groups)) }
                                            ELSE {}]]
    /\ UNCHANGED << ticks, runs, lock, fileMeta, marker, routes, ledger >>

\* An exception leaves _process_folder: from mkdir or the listing of the folder
\* (lines 461-464), from p.stat() of the grouping (427), from subprocess.run
\* (349, 369), from write_text of a marker (65), in which case the markers of
\* the files before it in the unit are written.  Nothing is caught: the finally
\* of main() is entered next and the locals of the run are gone.
Raise(p) ==
    /\ proc[p].pc \in {"folder", "reader", "mark"}
    /\ LET r == proc[p]
           group == IF r.pc = "mark" THEN Head(r.groups) ELSE << >>
       IN \E n \in 0 .. (IF r.pc = "mark" THEN Len(group) - 1 ELSE 0) :
            marker' = [f \in Files |->
                         IF \E i \in 1 .. n : group[i] = f
                         THEN [status |-> IF r.ok THEN "OK" ELSE "ERROR", age |-> 0,
                               group_size |-> Len(group)]
                         ELSE marker[f]]
    /\ proc' = [proc EXCEPT ![p] =
                  [IdleProc EXCEPT !.pc = "release", !.acquired = TRUE, !.raised = TRUE]]
    /\ UNCHANGED << ticks, runs, lock, fileMeta, routes, ledger >>

\* Time passes: every file grows older by d seconds.
Tick ==
    /\ ticks < MaxTicks
    /\ ticks' = ticks + 1
    /\ \E d \in TickSteps :
         /\ lock' = IF lock.owner = 0 THEN lock
                    ELSE [lock EXCEPT !.age = Min(lock.age + d, LockAgeCap)]
         /\ fileMeta' = [f \in DOMAIN fileMeta |->
                           [fileMeta[f] EXCEPT !.age = Min(fileMeta[f].age + d, FileAgeCap)]]
         /\ marker' = [f \in Files |->
                         IF marker[f].status = "none" THEN marker[f]
                         ELSE [marker[f] EXCEPT !.age = Min(marker[f].age + d, MarkerAgeCap)]]
    /\ UNCHANGED << runs, proc, routes, ledger >>

\* A source file is written again by whoever uploads the documents: its
\* st_mtime is now.
Upload(f) ==
    /\ f \in DOMAIN fileMeta
    /\ ~(fileMeta[f].age = 0 /\ fileMeta[f].size = 1)
    /\ fileMeta' = [fileMeta EXCEPT ![f] = [@ EXCEPT !.age = 0, !.size = 1]]
    /\ UNCHANGED << ticks, runs, lock, marker, proc, routes, ledger >>

\* One step of instance p.
Step(p) ==
    \/ Start(p)
    \/ UnlinkStale(p)
    \/ _try_acquire_lock(p)
    \/ Configure(p)
    \/ ScanFolder(p)
    \/ RunReader(p)
    \/ WriteMarkers(p)
    \/ _release_lock(p)
    \/ Return(p)
    \/ Raise(p)
    \/ Crash(p)

Next == (\E p \in Procs : Step(p)) \/ Tick \/ (\E f \in Files : Upload(f))

Spec == Init /\ [][Next]_vars

\* One instance, started again after each run.
NextFolder == Step(1) \/ Tick \/ (\E f \in Files : Upload(f))

SpecFolder == InitFolder /\ [][NextFolder]_vars

\* One pass of main() over the two folders of a client, from every state of
\* the folders: the instance holds the lock and is about to call
\* _process_folder for TARJETAS; earlier runs have left markers.
PassKinds == FileKinds \cup { [age |-> 2 * FILE_STABLE_SECONDS, size |-> 1] }

PassMarkers ==
    { NoMarker,
      [status |-> "OK", age |-> 0, group_size |-> 1],
      [status |-> "ERROR", age |-> 0, group_size |-> 1],
      [status |-> "OK", age |-> MarkerAgeCap, group_size |-> 1] }

InitPass ==
    /\ ticks = 0
    /\ runs = 1
    /\ routes = "mapped"
    /\ lock = [owner |-> 1, age |-> 0]
    /\ \E names \in DeploymentNames : \E kinds \in [Files -> PassKinds] :
         fileMeta = [f \in Files |->
                       [age |-> kinds[f].age, size |-> kinds[f].size, name |-> names[f]]]
    /\ marker \in [Files -> PassMarkers]
    /\ \E fr \in BOOLEAN :
         proc = [p \in Procs |->
                   IF p = 1
                   THEN [IdleProc EXCEPT !.pc = "folder", !.folder = TARJETAS,
                                         !.force_reprocess = fr, !.acquired = TRUE,
                                         !.cfg = "ok", !.idcliente = MappedId]
                   ELSE IdleProc]
    /\ ledger = NoLedger

NextPass == ScanFolder(1) \/ RunReader(1) \/ WriteMarkers(1)

SpecPass == InitPass /\ [][NextPass]_vars

\* One instance on a deployment with one file per folder, for every condition
\* of the route lookup.
InitRoute == InitRoutes(1 .. RouteFiles, RouteLookups) /\ ledger = NoLedger

SpecRoute == InitRoute /\ [][NextFolder]_vars

\* ---------------------------------------------------- reconciliation engine
\*
\* A text is a sequence of lines [concept, total]: the concept is the label left
\* of the "|", the total the amount right of it, in thousandths.  The oracle
\* text has no CONTROL_TOTALES_DIARIOS section.  Amounts are exact decimals; the
\* amounts drawn below have an even last digit, so that no rounding to two
\* decimals is a tie.

Categories ==
    << "TARJETA", "BANCO", "GASTO", "IVA_CREDITO", "RET_IVA", "RET_IIBB", "RET_GAN", "OTROS" >>

CategorySet == SetOfSeq(Categories)

Abs(x) == IF x < 0 THEN -x ELSE x

Max(a, b) == IF a > b THEN a ELSE b

\* n / d rounded to the nearest integer, ties to even (n >= 0, d > 0).
RoundHalfEven(n, d) ==
    LET q == n \div d
        r == n % d
    IN IF 2 * r > d \/ (2 * r = d /\ q % 2 = 1) THEN q + 1 ELSE q

\* _round2, and every f"{val:.2f}": the amount rounded to two decimals.
_round2(val) ==
    IF val < 0 THEN -(RoundHalfEven(-val, 10) * 10) ELSE RoundHalfEven(val, 10) * 10

\* k in t of Python: the string k occurs in the string t.
Contains(t, k) ==
    \E i \in 1 .. (Len(t) - Len(k) + 1) : SubSeq(t, i, i + Len(k) - 1) = k

\* _norm_text: the text in upper case (the concepts here carry no accents).
_norm_text(text) == Upper(text)

\* The strings _classify_concept_name looks for.
Keywords ==
    { "RET_GAN", "RET_IIBB", "RET_IVA", "IVA_CREDITO", "BANCO",
      "ACREDITADO", "LIQUIDADO", "NETO DE PAGOS", "NETO A COBRAR", "A DEPOSITAR",
      "ARANCEL", "COMISION", "CARGO", "IMPUESTO", "IVA", "GANANCIAS", "IIBB",
      "INGRESOS", "GASTO", "CREDITO", "RET", "PERCEP", "R.G. 2408", "RG 2408",
      "SIRTAC", "ING.BRUTOS", "ING. BRUTOS", "ING BRUTOS", "GAN", "RG 830",
      "CRED.FISC", "CRED FISC", "CRED", "FISC", "TARJETA" }

\* The keywords that occur in the normalised text of a concept.
KeywordsIn(concept) == { k \in Keywords : Contains(_norm_text(concept), k) }

\* The concepts of the ledger lines: the canonical labels and the concepts the
\* oracle answers with; their keywords are worked out once.
LedgerConcepts == CategorySet \cup {"RETENCION GANANCIAS", "COMISION"}

LedgerKeywords == [c \in LedgerConcepts |-> KeywordsIn(c)]

KeywordsOf(concept) ==
    IF concept \in LedgerConcepts THEN LedgerKeywords[concept] ELSE KeywordsIn(concept)

\* Variant of the classifier that knows the canonical labels only.
Classify_LiteralOnly(concept) ==
    IF _norm_text(concept) \in CategorySet THEN _norm_text(concept) ELSE "OTROS"

\* _classify_concept_name: the first rule that matches decides.
_classify_concept_name(concept) ==
    LET In(k) == k \in KeywordsOf(concept)
    IN IF In("RET_GAN") THEN "RET_GAN"
       ELSE IF In("RET_IIBB") THEN "RET_IIBB"
       ELSE IF In("RET_IVA") THEN "RET_IVA"
       ELSE IF In("IVA_CREDITO") THEN "IVA_CREDITO"
       ELSE IF In("BANCO") THEN "BANCO"
       ELSE IF \/ In("ACREDITADO") \/ In("LIQUIDADO") \/ In("NETO DE PAGOS")
               \/ In("NETO A COBRAR") \/ In("A DEPOSITAR") THEN "BANCO"
       ELSE IF In("ARANCEL") \/ In("COMISION") \/ In("CARGO") THEN "GASTO"
       ELSE IF /\ In("IMPUESTO") /\ ~In("IVA") /\ ~In("GANANCIAS")
               /\ ~In("IIBB") /\ ~In("INGRESOS") THEN "GASTO"
       ELSE IF (In("GASTO") \/ In("COMISION")) /\ ~In("IVA") /\ ~In("CREDITO") THEN "GASTO"
       ELSE IF In("IVA") /\ (In("ARANCEL") \/ In("COMISION") \/ In("GASTO")) THEN "IVA_CREDITO"
       ELSE IF \/ (In("IVA") /\ In("RET")) \/ (In("IVA") /\ In("PERCEP"))
               \/ In("R.G. 2408") \/ In("RG 2408") THEN "RET_IVA"
       ELSE IF \/ In("INGRESOS") \/ In("IIBB") \/ In("SIRTAC") \/ In("ING.BRUTOS")
               \/ In("ING. BRUTOS") \/ In("ING BRUTOS") THEN "RET_IIBB"
       ELSE IF In("GANANCIAS") \/ (In("RET") /\ In("GAN")) \/ In("RG 830") THEN "RET_GAN"
       ELSE IF \/ (In("IVA") /\ In("CREDITO")) \/ In("CRED.FISC") \/ In("CRED FISC")
               \/ (In("IVA") /\ In("CRED") /\ In("FISC")) THEN "IVA_CREDITO"
       ELSE IF In("TARJETA") /\ ~In("IVA") THEN "TARJETA"
       ELSE "OTROS"

_canonical_label_for_category(category) ==
    IF category \in CategorySet THEN category ELSE "OTROS"

\* Variant of _normalize_total_for_category that keeps the sign it is given.
NormalizeTotal_KeepsSign(total, category) ==
    IF Abs(_round2(total)) < 5 THEN 0 ELSE _round2(total)

\* _normalize_total_for_category: TARJETA positive, every other category
\* negative, two decimals.
_normalize_total_for_category(total, category) ==
    LET value == IF category = "TARJETA" THEN Abs(total) ELSE -Abs(total)
        rounded == _round2(value)
    IN IF Abs(rounded) < 5 THEN 0 ELSE rounded

\* fallback_by_position of _apply_keywords_to_main.
fallback_by_position(row_idx) ==
    IF row_idx \in 1 .. 8 THEN Categories[row_idx] ELSE "OTROS"

RECURSIVE SumsOfMain(_, _, _)
\* The loop of _apply_keywords_to_main (lines 437-460): the totals per category.
SumsOfMain(lines, row_idx, sums) ==
    IF lines = << >> THEN sums
    ELSE LET ln == Head(lines)
         IN IF ln.concept \in {"CONCEPTO", "TIPO", "TIPOCONCEPTOIA"}
            THEN SumsOfMain(Tail(lines), row_idx, sums)
            ELSE LET idx == row_idx + 1
                     named == _classify_concept_name(ln.concept)
                     placed == IF named = "OTROS" /\ ln.concept \in {"OTRO", "OTROS", "OTHER"}
                               THEN fallback_by_position(idx) ELSE named
                     cat == IF idx = 1 /\ placed = "OTROS" THEN "TARJETA" ELSE placed
                 IN SumsOfMain(Tail(lines), idx, [sums EXCEPT ![cat] = @ + ln.total])

\* _apply_keywords_to_main: one line per category, in the canonical order.
_apply_keywords_to_main(lines) ==
    LET sums == SumsOfMain(lines, 0, [c \in CategorySet |-> 0])
    IN [i \in 1 .. 8 |->
          [concept |-> _canonical_label_for_category(Categories[i]),
           total |-> _normalize_total_for_category(sums[Categories[i]], Categories[i])]]

\* _postprocess_output: a text without lines is returned as it is.
_postprocess_output(text) ==
    IF text = << >> THEN text ELSE _apply_keywords_to_main(text)

RECURSIVE ParseTotals(_, _)
\* The loop of _parse_output_totals: the last line of a category decides.
ParseTotals(text, totals) ==
    IF text = << >> THEN totals
    ELSE ParseTotals(Tail(text),
                     [totals EXCEPT ![_classify_concept_name(Head(text).concept)] = Head(text).total])

_parse_output_totals(text) == ParseTotals(text, [c \in CategorySet |-> 0])

\* _format_output_from_totals: the eight category lines with two decimals.
_format_output_from_totals(totals) ==
    [i \in 1 .. 8 |->
        LET cat == Categories[i]
            signed == IF cat = "TARJETA" THEN Abs(totals[cat])
                      ELSE IF cat = "OTROS" THEN _round2(totals[cat])
                      ELSE -Abs(totals[cat])
            val == IF Abs(signed) < 5 THEN 0 ELSE signed
        IN [concept |-> cat, total |-> _round2(val)]]

\* Labels of the daily blocks (_canon_label).
VENTAS == "VENTAS C/DESCUENTO CONTADO"
NETO == "IMPORTE NETO DE PAGOS"

\* preferred of _build_output_from_daily_columns.
preferred ==
    << VENTAS, "ARANCEL", "IVA CRED.FISC.COMERCIO S/ARANC 21,00%",
       "RETENCION ING.BRUTOS SIRTAC", "PERCEPCION IVA R.G. 2408 3,00 %",
       "RETENCION IVA", "RETENCION GANANCIAS", NETO >>

\* The other labels _canon_label yields, in sorted order.
OtherLabels ==
    << "IVA RI SERV.OPER. INT.", "QR PERCEPCION IVA 3337",
       "QR RETENCION IIBB RIO NEGRO", "SERVICIO OPER. INTERNAC." >>

\* concepts.get(label, 0.0)
Get(concepts, label) == IF label \in DOMAIN concepts THEN concepts[label] ELSE 0

RECURSIVE SumLabel(_, _)
SumLabel(daily_rows, label) ==
    IF daily_rows = << >> THEN 0
    ELSE Get(Head(daily_rows), label) + SumLabel(Tail(daily_rows), label)

\* _totals_from_daily_rows: per label, the sum over the rows that hold it.
_totals_from_daily_rows(daily_rows) ==
    [label \in UNION {DOMAIN daily_rows[i] : i \in 1 .. Len(daily_rows)} |->
        SumLabel(daily_rows, label)]

RECURSIVE SumOver(_, _)
SumOver(totals, labels) ==
    IF labels = {} THEN 0
    ELSE LET l == CHOOSE x \in labels : TRUE
         IN totals[l] + SumOver(totals, labels \ {l})

\* abs(a - b) > max(1.0, b * 0.002)
FarFrom(a, b) == Abs(a - b) * 1000 > Max(1000 * 1000, b * 2)

\* close() of _filter_daily_rows_for_bank_nacion.
close(a, b) == a > 0 /\ ~FarFrom(a, b)

\* _filter_daily_rows_for_bank_nacion: when the sums of the rows do not match
\* the header, the rows holding both a sale and a net amount are tried.
_filter_daily_rows_for_bank_nacion(daily_rows, total_presentado, neto_header) ==
    LET Matches(rows) ==
            LET t == _totals_from_daily_rows(rows)
            IN /\ total_presentado = None \/ close(Get(t, VENTAS), total_presentado[1])
               /\ neto_header = None \/ close(Get(t, NETO), neto_header[1])
        filtered == SelectSeq(daily_rows, LAMBDA r : Get(r, VENTAS) > 0 /\ Get(r, NETO) > 0)
    IN IF daily_rows = << >> THEN daily_rows
       ELSE IF Matches(daily_rows) THEN daily_rows
       ELSE IF filtered = << >> THEN daily_rows
       ELSE IF Matches(filtered) THEN filtered ELSE daily_rows

\* _build_output_from_daily_columns: one line per column of the daily blocks;
\* a net amount far from the header's replaces the computed one, and the sale
\* is recomputed from it.
_build_output_from_daily_columns(daily_rows, neto_header) ==
    LET totals == _totals_from_daily_rows(daily_rows)
        cols == SelectSeq(preferred \o OtherLabels, LAMBDA c : c \in DOMAIN totals)
        forced == /\ neto_header # None
                  /\ NETO \in DOMAIN totals
                  /\ FarFrom(totals[NETO], neto_header[1])
        cargos_sum == SumOver(totals, DOMAIN totals \ {VENTAS, NETO})
        final == IF forced
                 THEN [l \in DOMAIN totals \cup {VENTAS} |->
                          IF l = NETO THEN neto_header[1]
                          ELSE IF l = VENTAS THEN neto_header[1] + cargos_sum
                          ELSE totals[l]]
                 ELSE totals
    IN IF DOMAIN totals = {} THEN << >>
       ELSE [i \in 1 .. Len(cols) |->
               [concept |-> cols[i],
                total |-> _round2(IF cols[i] = VENTAS THEN Abs(final[cols[i]])
                                  ELSE -Abs(final[cols[i]]))]]

\* _apply_pdf_overrides lines 1276-1291: the ledger of the discount breakdown.
PatagoniaLines(pdf_totals) ==
    LET tp == pdf_totals.total_presentado
        saldo == pdf_totals.saldo
        desglose == pdf_totals.patagonia_desglose
    IN (IF tp # None THEN << [concept |-> "TOTAL PRESENTADO", total |-> _round2(tp[1])] >>
        ELSE << >>)
       \o [i \in 1 .. Len(desglose) |->
             [concept |-> desglose[i].label, total |-> _round2(-Abs(desglose[i].amount))]]
       \o (IF saldo # None THEN << [concept |-> "SALDO", total |-> _round2(-Abs(saldo[1]))] >>
           ELSE << >>)

\* Variant of iva_calc that takes 10.5% of the fee.
IvaCalc_HalfRate(arancel_sum) == RoundHalfEven(arancel_sum * 105, 10000) * 10

\* iva_calc: round(arancel_sum * 0.21, 2).
iva_calc(arancel_sum) == RoundHalfEven(arancel_sum * 21, 1000) * 10

\* Variant of the overrides that takes the header net before the sale sum minus
\* the charges.
Overrides_HeaderFirst(totals, pdf_totals) ==
    LET has_daily == pdf_totals.has_daily
        ventas_sum == pdf_totals.ventas_sum
        arancel_sum == pdf_totals.arancel_sum
        ret_iva_sum == pdf_totals.ret_iva_sum
        ret_iibb_sum == pdf_totals.ret_iibb_sum
        ret_gan_sum == pdf_totals.ret_gan_sum
        neto_sum == pdf_totals.neto_sum
        total_presentado == pdf_totals.total_presentado
        neto_header == pdf_totals.neto_header
        iva_sum == IF /\ has_daily /\ arancel_sum > 0
                      /\ (pdf_totals.iva_sum <= 0
                          \/ Abs(pdf_totals.iva_sum - iva_calc(arancel_sum)) > 50)
                   THEN iva_calc(arancel_sum) ELSE pdf_totals.iva_sum
        charges == {arancel_sum, iva_sum, ret_iva_sum, ret_iibb_sum, ret_gan_sum}
        tarjeta == IF has_daily /\ ventas_sum > 0 THEN << ventas_sum >>
                   ELSE IF total_presentado # None THEN total_presentado
                   ELSE None
        banco == IF has_daily /\ neto_sum > 0 THEN << neto_sum >>
                 ELSE IF neto_header # None THEN neto_header
                 ELSE IF has_daily /\ ventas_sum > 0 /\ (\E v \in charges : v > 0)
                 THEN << ventas_sum - (arancel_sum + iva_sum + ret_iva_sum
                                       + ret_iibb_sum + ret_gan_sum) >>
                 ELSE None
        Daily(sum, old) == IF has_daily /\ sum > 0 THEN -sum ELSE old
    IN [ changed |-> \/ tarjeta # None
                     \/ banco # None
                     \/ has_daily /\ (\E v \in charges : v > 0),
         totals |-> [c \in CategorySet |->
                       CASE c = "TARJETA" -> IF tarjeta # None THEN tarjeta[1] ELSE totals[c]
                         [] c = "BANCO" -> IF banco # None THEN banco[1] ELSE totals[c]
                         [] c = "GASTO" -> Daily(arancel_sum, totals[c])
                         [] c = "IVA_CREDITO" -> Daily(iva_sum, totals[c])
                         [] c = "RET_IVA" -> Daily(ret_iva_sum, totals[c])
                         [] c = "RET_IIBB" -> Daily(ret_iibb_sum, totals[c])
                         [] c = "RET_GAN" -> Daily(ret_gan_sum, totals[c])
                         [] OTHER -> totals[c]] ]

\* _apply_pdf_overrides lines 1307-1350: the totals after the deterministic
\* overrides, and whether any was applied.
Overrides(totals, pdf_totals) ==
    LET has_daily == pdf_totals.has_daily
        ventas_sum == pdf_totals.ventas_sum
        arancel_sum == pdf_totals.arancel_sum
        ret_iva_sum == pdf_totals.ret_iva_sum
        ret_iibb_sum == pdf_totals.ret_iibb_sum
        ret_gan_sum == pdf_totals.ret_gan_sum
        neto_sum == pdf_totals.neto_sum
        total_presentado == pdf_totals.total_presentado
        neto_header == pdf_totals.neto_header
        iva_sum == IF /\ has_daily /\ arancel_sum > 0
                      /\ (pdf_totals.iva_sum <= 0
                          \/ Abs(pdf_totals.iva_sum - iva_calc(arancel_sum)) > 50)
                   THEN iva_calc(arancel_sum) ELSE pdf_totals.iva_sum
        charges == {arancel_sum, iva_sum, ret_iva_sum, ret_iibb_sum, ret_gan_sum}
        tarjeta == IF has_daily /\ ventas_sum > 0 THEN << ventas_sum >>
                   ELSE IF total_presentado # None THEN total_presentado
                   ELSE None
        banco == IF has_daily /\ neto_sum > 0 THEN << neto_sum >>
                 ELSE IF has_daily /\ ventas_sum > 0 /\ (\E v \in charges : v > 0)
                 THEN << ventas_sum - (arancel_sum + iva_sum + ret_iva_sum
                                       + ret_iibb_sum + ret_gan_sum) >>
                 ELSE IF neto_header # None THEN neto_header
                 ELSE None
        Daily(sum, old) == IF has_daily /\ sum > 0 THEN -sum ELSE old
    IN [ changed |-> \/ tarjeta # None
                     \/ banco # None
                     \/ has_daily /\ (\E v \in charges : v > 0),
         totals |-> [c \in CategorySet |->
                       CASE c = "TARJETA" -> IF tarjeta # None THEN tarjeta[1] ELSE totals[c]
                         [] c = "BANCO" -> IF banco # None THEN banco[1] ELSE totals[c]
                         [] c = "GASTO" -> Daily(arancel_sum, totals[c])
                         [] c = "IVA_CREDITO" -> Daily(iva_sum, totals[c])
                         [] c = "RET_IVA" -> Daily(ret_iva_sum, totals[c])
                         [] c = "RET_IIBB" -> Daily(ret_iibb_sum, totals[c])
                         [] c = "RET_GAN" -> Daily(ret_gan_sum, totals[c])
                         [] OTHER -> totals[c]] ]

\* _apply_pdf_overrides lines 1355-1370: signs normalised, and OTROS set to
\* what balances the other categories unless they balance within 0.01.
Normalised(totals) ==
    LET norm == [c \in CategorySet \ {"OTROS"} |->
                    IF c = "TARJETA" THEN Abs(totals[c]) ELSE -Abs(totals[c])]
        sum_except_otros == SumOver(norm, DOMAIN norm)
    IN [c \in CategorySet |->
          IF c # "OTROS" THEN norm[c]
          ELSE IF Abs(sum_except_otros) < 10 THEN 0 ELSE -sum_except_otros]

\* Variant of _apply_pdf_overrides that looks at the daily columns before the
\* discount breakdown.
ApplyPdfOverrides_DailyFirst(text, pdf_totals) ==
    LET rows == _filter_daily_rows_for_bank_nacion(pdf_totals.daily_rows,
                                                   pdf_totals.total_presentado,
                                                   pdf_totals.neto_header)
        out_text == _build_output_from_daily_columns(rows, pdf_totals.neto_header)
        over == Overrides(_parse_output_totals(text), pdf_totals)
    IN IF pdf_totals.bank_nacion /\ pdf_totals.daily_rows # << >> /\ out_text # << >>
       THEN [branch |-> "nacion", lines |-> out_text]
       ELSE IF pdf_totals.bank_patagonia /\ pdf_totals.patagonia_desglose # << >>
       THEN [branch |-> "patagonia", lines |-> PatagoniaLines(pdf_totals)]
       ELSE IF ~over.changed
       THEN [branch |-> "passthrough", lines |-> text]
       ELSE [branch |-> "override", lines |-> _format_output_from_totals(Normalised(over.totals))]

\* _apply_pdf_overrides: the lines that follow the header block, and the branch
\* that produced them.
_apply_pdf_overrides(text, pdf_totals) ==
    LET rows == _filter_daily_rows_for_bank_nacion(pdf_totals.daily_rows,
                                                   pdf_totals.total_presentado,
                                                   pdf_totals.neto_header)
        out_text == _build_output_from_daily_columns(rows, pdf_totals.neto_header)
        over == Overrides(_parse_output_totals(text), pdf_totals)
    IN IF pdf_totals.bank_patagonia /\ pdf_totals.patagonia_desglose # << >>
       THEN [branch |-> "patagonia", lines |-> PatagoniaLines(pdf_totals)]
       ELSE IF pdf_totals.bank_nacion /\ pdf_totals.daily_rows # << >> /\ out_text # << >>
       THEN [branch |-> "nacion", lines |-> out_text]
       ELSE IF ~over.changed
       THEN [branch |-> "passthrough", lines |-> text]
       ELSE [branch |-> "override", lines |-> _format_output_from_totals(Normalised(over.totals))]

\* ------------------------------------------------ inputs of the engine

MaxLines == 2       \* lines of the oracle text

\* Lines the oracle may answer with.
OracleLines ==
    { [concept |-> "TARJETA", total |-> 100000],
      [concept |-> "BANCO", total |-> 90000],
      [concept |-> "RETENCION GANANCIAS", total |-> -5000],
      [concept |-> "OTROS", total |-> -7000],
      [concept |-> "COMISION", total |-> -1234] }

OracleTexts == UNION { [1 .. n -> OracleLines] : n \in 0 .. MaxLines }

\* Sums of the daily totals found in the page texts (_sum_matches).
DailySums ==
    { [ventas_sum |-> v, arancel_sum |-> a, iva_sum |-> i, neto_sum |-> n,
       ret_iva_sum |-> r[1], ret_iibb_sum |-> r[2], ret_gan_sum |-> r[3]] :
        v \in {0, 1000000, 100004},
        a \in {0, 50000},
        i \in {0, 10500, 9000},
        n \in {0, 939500, 934500, 50006},
        r \in { << 0, 0, 0 >>, << 0, 0, 50006 >>, << 2000, 3000, 0 >> } }

\* Header amounts: none found, one found (the presented total), two found.
HeaderAmounts ==
    { [total_presentado |-> None, neto_header |-> None],
      [total_presentado |-> << 1000000 >>, neto_header |-> None],
      [total_presentado |-> << 1000000 >>, neto_header |-> << 939500 >>] }

\* Daily blocks: a complete one, one without a sale, and a complete one whose
\* net amount is not the header's.
FullRow ==
    (VENTAS :> 1000000) @@ ("ARANCEL" :> 50000)
    @@ ("IVA CRED.FISC.COMERCIO S/ARANC 21,00%" :> 10500) @@ (NETO :> 939500)

PartialRow == ("ARANCEL" :> 20000) @@ (NETO :> 80000)

SkewedRow == (VENTAS :> 1000000) @@ ("ARANCEL" :> 50000) @@ (NETO :> 900000)

\* Items of the discount breakdown.
Desglose1 == << [label |-> "ARANCEL TJ.CREDITO", amount |-> 50000] >>

Desglose2 == Desglose1 \o << [label |-> "IVA 21%", amount |-> 10500] >>

\* What the bank-specific extraction found: the bank flags, the discount
\* breakdown and balance (Banco Patagonia), the daily blocks.
BankShapes ==
    { [bank_nacion |-> FALSE, bank_patagonia |-> FALSE, patagonia_desglose |-> << >>,
       saldo |-> None, daily_rows |-> rows] : rows \in { << >>, << FullRow >> } }
    \cup
    { [bank_nacion |-> TRUE, bank_patagonia |-> FALSE, patagonia_desglose |-> << >>,
       saldo |-> None, daily_rows |-> rows] :
        rows \in { << >>, << FullRow >>, << PartialRow >>, << FullRow, PartialRow >>,
                   << SkewedRow >> } }
    \cup
    { [bank_nacion |-> FALSE, bank_patagonia |-> TRUE, patagonia_desglose |-> d,
       saldo |-> sd, daily_rows |-> << >>] :
        d \in { << >>, Desglose1, Desglose2 }, sd \in { None, << 939500 >> } }
    \cup
    { [bank_nacion |-> TRUE, bank_patagonia |-> TRUE, patagonia_desglose |-> Desglose1,
       saldo |-> << 939500 >>, daily_rows |-> << FullRow >>] }

\* _extract_pdf_totals: the record handed to _apply_pdf_overrides; has_daily is
\* set when a page shows a positive daily total.
_extract_pdf_totals(sums, header, shape) ==
    [ has_daily |-> \E k \in DOMAIN sums : sums[k] > 0,
      ventas_sum |-> sums.ventas_sum,
      arancel_sum |-> sums.arancel_sum,
      iva_sum |-> sums.iva_sum,
      ret_iva_sum |-> sums.ret_iva_sum,
      ret_iibb_sum |-> sums.ret_iibb_sum,
      ret_gan_sum |-> sums.ret_gan_sum,
      neto_sum |-> sums.neto_sum,
      total_presentado |-> header.total_presentado,
      neto_header |-> header.neto_header,
      bank_nacion |-> shape.bank_nacion,
      bank_patagonia |-> shape.bank_patagonia,
      patagonia_desglose |-> shape.patagonia_desglose,
      saldo |-> shape.saldo,
      daily_rows |-> shape.daily_rows ]

\* The reader has the oracle's answer and the totals extracted from the PDF.
InitLedger ==
    /\ InitOn({})
    /\ ledger \in { [stage |-> "oracle", oracle |-> o, text |-> << >>,
                     pdf_totals |-> _extract_pdf_totals(s, h, b),
                     branch |-> "none", out |-> << >>] :
                       o \in OracleTexts, s \in DailySums, h \in HeaderAmounts, b \in BankShapes }

\* Worker line 1847: data = _postprocess_output(str(data)).
Postprocess ==
    /\ ledger.stage = "oracle"
    /\ ledger' = [ledger EXCEPT !.stage = "postprocessed",
                                !.text = _postprocess_output(ledger.oracle)]
    /\ UNCHANGED orchVars

\* Worker line 1848: data = _apply_pdf_overrides(data, pdf_totals, log_path).
ApplyOverrides ==
    /\ ledger.stage = "postprocessed"
    /\ LET r == _apply_pdf_overrides(ledger.text, ledger.pdf_totals)
       IN ledger' = [ledger EXCEPT !.stage = "final", !.branch = r.branch, !.out = r.lines]
    /\ UNCHANGED orchVars

NextLedger == Postprocess \/ ApplyOverrides

SpecLedger == InitLedger /\ [][NextLedger]_vars

\* ------------------------------------------------------------- classifier

MaxWords == 2       \* words of a concept label

\* Words a concept label of a settlement is made of.
LabelWords ==
    { "IVA", "iva 21%", "ARANCEL", "COMISION", "GASTO", "CARGO", "INGRESOS BRUTOS",
      "IIBB", "SIRTAC", "GANANCIAS", "RG 830", "RETENCION", "RETENCION IVA",
      "PERCEPCION IVA", "RETENCION DE GANANCIAS", "TARJETA", "TOTAL PRESENTADO",
      "LIQUIDADO", "CREDITO FISCAL", "IMPUESTO", "RET_IIBB", "BANCO" }

RECURSIVE LabelsOf(_)
\* The labels of n words.
LabelsOf(n) ==
    IF n = 1 THEN LabelWords
    ELSE { l \o " " \o w : l \in LabelsOf(n - 1), w \in LabelWords }

Labels == UNION { LabelsOf(n) : n \in 1 .. MaxWords }

\* A concept label is about to be classified.
InitClassify ==
    /\ InitOn({})
    /\ ledger \in { [stage |-> "label", concept |-> c, category |-> "none"] : c \in Labels }

\* _classify_concept_name is applied to the label.
Classify ==
    /\ ledger.stage = "label"
    /\ ledger' = [ledger EXCEPT !.stage = "classified",
                                !.category = _classify_concept_name(ledger.concept)]
    /\ UNCHANGED orchVars

NextClassify == Classify

SpecClassify == InitClassify /\ [][NextClassify]_vars

\* ------------------------------------------------------------ oracle call
\*
\* call_backend of ia_backend_transport.py: the environment of the reader, the
\* request it sends, the reply of the backend, and the text returned or the
\* message of the SystemExit raised.

DEFAULT_IA_BACKEND_URL == "http://alfanetac.ddns.net:8805"
DEFAULT_IA_CLIENT_ID == "cliente_demo"
DEFAULT_IA_CLIENT_SECRET == "cambiar_por_secreto_largo"

\* (os.getenv(name) or "").strip() or default; an unset variable is "".
EnvOr(value, default) == IF Strip(value) # "" THEN Strip(value) ELSE default

\* The reader uses the backend when a backend address is set or defaulted.
backend_enabled(env) == EnvOr(env.IA_BACKEND_URL, DEFAULT_IA_BACKEND_URL) # ""

\* The environment variables call_backend reads.
BackendEnvs ==
    [ IA_BACKEND_URL : {"", "http://ia.local:8805"},
      IA_CLIENT_ID : {"", " ", "acme"},
      IA_CLIENT_SECRET : {"", "s3cr3t"} ]

\* What data.get("output_text") may be: missing, null, a string, a number.
OutputTexts ==
    { [type |-> "absent", v |-> ""], [type |-> "null", v |-> ""],
      [type |-> "str", v |-> ""], [type |-> "str", v |-> "  "],
      [type |-> "str", v |-> " TARJETA|100.00 "], [type |-> "int", v |-> "5"] }

\* Response bodies: not JSON, a JSON array, a JSON object.
Bodies ==
    { [json |-> "invalid", ok |-> "absent", output_text |-> [type |-> "absent", v |-> ""]],
      [json |-> "array", ok |-> "absent", output_text |-> [type |-> "absent", v |-> ""]] }
    \cup { [json |-> "object", ok |-> k, output_text |-> t] :
             k \in {"absent", "true", "false"}, t \in OutputTexts }

\* HTTP status of the reply; 0 stands for no reply at all (connection refused,
\* timeout).
Statuses == {0, 200, 204, 401, 500}

Replies == [status : Statuses, body : Bodies]

Raises(message) == [kind |-> "raise", text |-> message]

Returns(text) == [kind |-> "return", text |-> text]

\* Lines 49-60: the settings, and the SystemExit for a missing setting; None
\* when the request goes out.
CheckSettings(env) ==
    LET base_url == EnvOr(env.IA_BACKEND_URL, DEFAULT_IA_BACKEND_URL)
        client_id == EnvOr(env.IA_CLIENT_ID, DEFAULT_IA_CLIENT_ID)
        client_secret == EnvOr(env.IA_CLIENT_SECRET, DEFAULT_IA_CLIENT_SECRET)
    IN IF base_url = ""
       THEN << Raises("ERROR: Falta IA_BACKEND_URL para usar backend remoto.") >>
       ELSE IF client_id = "" \/ client_secret = ""
       THEN << Raises("ERROR: Faltan IA_CLIENT_ID / IA_CLIENT_SECRET para usar backend remoto.") >>
       ELSE None

\* Lines 111-133: the reply is read, parsed and checked.
ReadReply(reply) ==
    IF reply.status = 0 THEN Raises("ERROR backend no disponible")
    ELSE IF reply.status \notin 200 .. 299 THEN Raises("ERROR backend HTTP")
    ELSE IF reply.body.json = "invalid" THEN Raises("ERROR backend: respuesta no es JSON valido.")
    ELSE IF reply.body.json # "object" THEN Raises("ERROR backend: formato de respuesta invalido.")
    ELSE IF reply.body.ok = "false" THEN Raises("ERROR backend: sin detalle")
    ELSE LET given == reply.body.output_text
             truthy == \/ given.type = "int"
                       \/ (given.type = "str" /\ given.v # "")
         IN IF truthy /\ given.type # "str"
            THEN Raises("AttributeError: 'int' object has no attribute 'strip'")
            ELSE LET out_text == IF truthy THEN Strip(given.v) ELSE ""
                 IN IF out_text = ""
                    THEN Raises("ERROR backend: respuesta vacia del modelo.")
                    ELSE Returns(out_text)

NoReply == [status |-> 0, body |-> CHOOSE b \in Bodies : b.json = "invalid"]

\* The reader is about to call the oracle.
InitBackend ==
    /\ InitOn({})
    /\ ledger \in { [stage |-> "call", env |-> e, client_id |-> "", client_secret |-> "",
                     reply |-> NoReply, outcome |-> Raises("")] : e \in BackendEnvs }

\* call_model with use_backend set, and call_backend up to urlopen: the
\* settings are checked and the request is signed and sent.
SendRequest ==
    /\ ledger.stage = "call"
    /\ backend_enabled(ledger.env)
    /\ LET failed == CheckSettings(ledger.env)
       IN ledger' = IF failed # None
                    THEN [ledger EXCEPT !.stage = "done", !.outcome = failed[1]]
                    ELSE [ledger EXCEPT
                            !.stage = "sent",
                            !.client_id = EnvOr(ledger.env.IA_CLIENT_ID, DEFAULT_IA_CLIENT_ID),
                            !.client_secret = EnvOr(ledger.env.IA_CLIENT_SECRET,
                                                    DEFAULT_IA_CLIENT_SECRET)]
    /\ UNCHANGED orchVars

\* The backend answers, or does not, and call_backend returns or raises.
ReceiveReply ==
    /\ ledger.stage = "sent"
    /\ \E reply \in Replies :
         ledger' = [ledger EXCEPT !.stage = "done", !.reply = reply,
                                  !.outcome = ReadReply(reply)]
    /\ UNCHANGED orchVars

NextBackend == SendRequest \/ ReceiveReply

SpecBackend == InitBackend /\ [][NextBackend]_vars

\* ------------------------------------------------------------ daily blocks
\*
\* _parse_daily_block.  A block is a sequence of lines without blank ones; a
\* line is [text, dollar, nums]: its words, whether it holds a "$", and the
\* numbers written in it, in their order, in thousandths.  The row returned is
\* its concepts dictionary; the date of the row is left out.

MaxBlockLines == 3  \* lines of a block

\* Lines of the page text around a daily total.
BlockLines ==
    { [text |-> "Ventas c/descuento contado", dollar |-> TRUE, nums |-> << 100000 >>],
      [text |-> "VENTAS C DESCUENTO CONTADO", dollar |-> TRUE, nums |-> << 100000 >>],
      [text |-> "ARANCEL", dollar |-> TRUE, nums |-> << 5000 >>],
      [text |-> "IMPORTE NETO DE PAGOS", dollar |-> TRUE, nums |-> << 3000, 95000 >>],
      [text |-> "Importe  neto de pagos", dollar |-> FALSE, nums |-> << 95000 >>],
      [text |-> "IMPORTE NETO DE PAGOS", dollar |-> TRUE, nums |-> << 0 >>],
      [text |-> "F. Pres", dollar |-> FALSE, nums |-> << >>] }

Blocks == UNION { [1 .. n -> BlockLines] : n \in 0 .. MaxBlockLines }

RECURSIVE SkipSpaces(_, _)
\* \s* from position i: the position after the spaces.
SkipSpaces(s, i) == IF CharAt(s, i) = " " THEN SkipSpaces(s, i + 1) ELSE i

\* The literal k at position i: the position after it, 0 when it is not there.
Lit(s, i, k) ==
    IF i > 0 /\ i + Len(k) - 1 <= Len(s) /\ SubSeq(s, i, i + Len(k) - 1) = k
    THEN i + Len(k) ELSE 0

\* re.search(r"VENTAS\s*C[/ ]DESCUENTO\s*CONTADO", ln, re.IGNORECASE)
SaleBoundary(ln) ==
    LET t == Upper(ln.text)
    IN \E i \in 1 .. Len(t) :
         LET c == Lit(t, SkipSpaces(t, Lit(t, i, "VENTAS")), "C")
             d == IF c > 0 /\ CharAt(t, c) \in {"/", " "} THEN c + 1 ELSE 0
         IN Lit(t, SkipSpaces(t, Lit(t, d, "DESCUENTO")), "CONTADO") > 0

\* re.search(r"IMPORTE\s*NETO\s*DE\s*PAGOS", ln, re.IGNORECASE)
NetBoundary(ln) ==
    LET t == Upper(ln.text)
    IN \E i \in 1 .. Len(t) :
         LET n == Lit(t, SkipSpaces(t, Lit(t, i, "IMPORTE")), "NETO")
             d == Lit(t, SkipSpaces(t, n), "DE")
         IN Lit(t, SkipSpaces(t, d), "PAGOS") > 0

\* _canon_label of _parse_daily_block: the label of the line, "" for None.
_canon_label(ln) ==
    LET t == Strip(CollapseFrom(Upper(ln.text), 1, "space"))
    IN IF Contains(t, VENTAS) THEN VENTAS
       ELSE IF Contains(t, "ARANCEL") THEN "ARANCEL"
       ELSE IF Contains(t, "IVA CRED.FISC.COMERCIO S/ARANC")
       THEN "IVA CRED.FISC.COMERCIO S/ARANC 21,00%"
       ELSE IF Contains(t, "IVA RI SERV.OPER. INT") THEN "IVA RI SERV.OPER. INT."
       ELSE IF Contains(t, "SERVICIO OPER. INTERNAC") \/ Contains(t, "SERV.OPER. INT")
       THEN "SERVICIO OPER. INTERNAC."
       ELSE IF Contains(t, "RETENCION ING.BRUTOS SIRTAC") THEN "RETENCION ING.BRUTOS SIRTAC"
       ELSE IF Contains(t, "PERCEPCION IVA R.G. 2408") THEN "PERCEPCION IVA R.G. 2408 3,00 %"
       ELSE IF Contains(t, "QR PERCEPCION IVA 3337") THEN "QR PERCEPCION IVA 3337"
       ELSE IF Contains(t, "QR RETENCION IIBB RIO NEGRO") THEN "QR RETENCION IIBB RIO NEGRO"
       ELSE IF Contains(t, NETO) THEN NETO
       ELSE ""

RECURSIVE ConceptsOf(_, _)
\* The loop of lines 957-972 over the lines still to read: the last amount of a
\* line with a "$", a label and a positive amount is kept under its label.
ConceptsOf(lines, concept_map) ==
    IF lines = << >> THEN concept_map
    ELSE LET ln == Head(lines)
             label == _canon_label(ln)
             kept == /\ ln.nums # << >>
                     /\ ln.dollar
                     /\ label # ""
                     /\ ln.nums[Len(ln.nums)] > 0
         IN ConceptsOf(Tail(lines),
                       IF kept THEN (label :> ln.nums[Len(ln.nums)]) @@ concept_map
                       ELSE concept_map)

\* _parse_daily_block: the lines from the first sale line to the first net
\* line, or from the first line of the block when no sale line comes before
\* the net line.
_parse_daily_block(block) ==
    LET nets == {i \in 1 .. Len(block) : NetBoundary(block[i])}
    IN IF nets = {} THEN None
       ELSE LET end_idx == CHOOSE i \in nets : \A j \in nets : i <= j
                sales == {i \in 1 .. end_idx : SaleBoundary(block[i])}
                start_idx == IF sales = {} THEN 1
                             ELSE CHOOSE i \in sales : \A j \in sales : i <= j
                concept_map == ConceptsOf(SubSeq(block, start_idx, end_idx), << >>)
            IN IF DOMAIN concept_map = {} THEN None ELSE << concept_map >>

\* A block cut out of the page text is about to be parsed.
InitBlocks ==
    /\ InitOn({})
    /\ ledger \in { [stage |-> "block", block |-> b, row |-> None] : b \in Blocks }

\* _extract_pdf_totals line 793: row = _parse_daily_block(block).
ParseBlock ==
    /\ ledger.stage = "block"
    /\ ledger' = [ledger EXCEPT !.stage = "parsed", !.row = _parse_daily_block(ledger.block)]
    /\ UNCHANGED orchVars

NextBlocks == ParseBlock

SpecBlocks == InitBlocks /\ [][NextBlocks]_vars

\* ------------------------------------------------- orchestrator properties

\* Instances between a successful acquisition and their release.
Holders == {p \in Procs : proc[p].pc \in {"config", "folder", "reader", "mark", "release"}}

\* The run has been through both folders and main() is returning.
Finished(r) == r.pc \in {"release", "return"} /\ r.folder = NumFolders + 1

\* C1: mutual exclusion of runs -- at most one instance is ever between a
\* successful lock acquisition and its lock release.
C1_MutualExclusion == Cardinality(Holders) <= 1

\* C2: a run without force-reprocess never hands to the reader a file whose
\* marker had STATUS=OK when the run entered the file's folder.
C2_OkNeverReprocessed ==
    \A p \in Procs :
        ~proc[p].force_reprocess =>
            \A f \in Files : proc[p].calls[f] # "no" => proc[p].pre[f] # "OK"

Final == ledger.stage = "final"

RECURSIVE SumTotals(_)
\* The sum of the printed amounts of the lines.
SumTotals(lines) ==
    IF lines = << >> THEN 0 ELSE Head(lines).total + SumTotals(Tail(lines))

\* The lines carry exactly this amount for the concept, once.
Carries(lines, concept, total) ==
    /\ \E i \in 1 .. Len(lines) : lines[i].concept = concept /\ lines[i].total = total
    /\ Cardinality({i \in 1 .. Len(lines) : lines[i].concept = concept}) = 1

\* The amount the lines carry for the concept, 0 when they have no such line.
TotalOf(lines, concept) ==
    IF \E i \in 1 .. Len(lines) : lines[i].concept = concept
    THEN (CHOOSE ln \in SetOfSeq(lines) : ln.concept = concept).total
    ELSE 0

\* C7: on the override path the eight printed category amounts sum to zero
\* within 0.01.
C7_OverrideZeroSum ==
    (Final /\ ledger.branch = "override") =>
        /\ Len(ledger.out) = 8
        /\ Abs(SumTotals(ledger.out)) <= 10

\* C8: in every branch the printed amounts of the final ledger sum to zero
\* within 0.01.
C8_LedgerZeroSum ==
    Final => Abs(SumTotals(ledger.out)) <= 10

\* The sale lines: TARJETA, and the presented-total and sale lines of the
\* bank-specific variants.
SaleConcepts == {"TARJETA", "TOTAL PRESENTADO", "VENTAS C/DESCUENTO CONTADO"}

Retentions == {"RET_IVA", "RET_IIBB", "RET_GAN"}

\* The deterministic daily total of a retention category.
DailyRetention(c) ==
    CASE c = "RET_IVA" -> ledger.pdf_totals.ret_iva_sum
      [] c = "RET_IIBB" -> ledger.pdf_totals.ret_iibb_sum
      [] c = "RET_GAN" -> ledger.pdf_totals.ret_gan_sum

\* The case of C10: daily totals S, F, V, N positive with two decimals,
\* S = N + F + V + R, V within 0.05 of 21% of F, and a document that is not
\* handled by a bank-specific variant.
BalancedDailyTotals ==
    LET t == ledger.pdf_totals
        R == t.ret_iva_sum + t.ret_iibb_sum + t.ret_gan_sum
    IN /\ t.ventas_sum > 0 /\ t.arancel_sum > 0 /\ t.iva_sum > 0 /\ t.neto_sum > 0
       /\ \A k \in {"ventas_sum", "arancel_sum", "iva_sum", "neto_sum",
                    "ret_iva_sum", "ret_iibb_sum", "ret_gan_sum"} : t[k] % 10 = 0
       /\ t.ventas_sum = t.neto_sum + t.arancel_sum + t.iva_sum + R
       /\ Abs(t.iva_sum * 100 - t.arancel_sum * 21) <= 50 * 100
       /\ ~(t.bank_patagonia /\ t.patagonia_desglose # << >>)
       /\ ~(t.bank_nacion /\ t.daily_rows # << >>)

OracleOnlyRetentions ==
    {c \in Retentions : DailyRetention(c) = 0 /\ TotalOf(ledger.text, c) # 0}

EligibleAtScan(r, f) ==
    /\ r.ready[f] = "yes"
    /\ r.force_reprocess \/ r.seen[f] \in {"none", "ERROR"}

\* The unit of file f is not waiting for its markers.
UnitMarked(r, f) == ~(r.pc = "mark" /\ f \in SetOfSeq(Head(r.groups)))

\* C11: per-unit error isolation -- once the reader has failed for a unit,
\* every file of the unit has a marker with STATUS=ERROR; a run that passed the
\* configuration stage goes through both folders and returns 0; and by then
\* every file its enumeration found eligible has been handed to the reader,
\* whatever happened to the units before it.
C11_ErrorIsolated ==
    \A p \in Procs :
        LET r == proc[p]
        IN /\ \A f \in Files :
                (r.calls[f] = "failed" /\ UnitMarked(r, f)) =>
                    r.wrote[f] = "ERROR" /\ marker[f].status = "ERROR"
           /\ (r.cfg = "ok" /\ r.pc \in {"release", "return"}) =>
                 Finished(r) /\ r.exit = "0"
           /\ Finished(r) => \A f \in Files : EligibleAtScan(r, f) => r.calls[f] # "no"

\* C11 witness: a finished run in which the reader failed for the TARJETAS file
\* and for the first COMPRAS unit, each marked ERROR, and the COMPRAS unit
\* after them was handed to the reader and marked OK.
C11_Witness ==
    \E p \in Procs :
        /\ Finished(proc[p])
        /\ proc[p].calls[1] = "failed"
        /\ proc[p].calls[2] = "failed"
        /\ marker[1].status = "ERROR"
        /\ marker[2].status = "ERROR"
        /\ marker[2].group_size = 1
        /\ proc[p].calls[3] = "ok"
        /\ marker[3].status = "OK"

\* The configuration outcomes for which main() returns 2.
FatalCfg == {"idcliente_cfgerr", "no_paths", "no_reader"}

FailedStability(r, f) ==
    /\ r.ready[f] = "no"
    /\ r.force_reprocess \/ r.seen[f] \in {"none", "ERROR"}

\* C13: a file that failed the stability check of a run is not handed to the
\* reader by that run, and the run neither writes nor changes its marker: the
\* marker has the status it had when the run entered the folder.
C13_NotReadyUntouched ==
    \A p \in Procs : \A f \in Files :
        (FailedStability(proc[p], f) /\ proc[p].pc \in {"folder", "reader", "mark", "release"}) =>
            /\ proc[p].calls[f] = "no"
            /\ proc[p].wrote[f] = "none"
            /\ marker[f].status = proc[p].pre[f]

\* C14: at the end of a run with force-reprocess every file its enumeration
\* found stable has been handed to the reader, whatever marker it had, and its
\* marker carries the outcome of that call.
C14_ForceReprocess ==
    \A p \in Procs :
        (Finished(proc[p]) /\ proc[p].force_reprocess) =>
            \A f \in DOMAIN fileMeta :
                proc[p].ready[f] = "yes" =>
                    /\ proc[p].calls[f] # "no"
                    /\ proc[p].wrote[f] = (IF proc[p].calls[f] = "ok" THEN "OK" ELSE "ERROR")
                    /\ marker[f].status = proc[p].wrote[f]

\* C14 witness: a finished run with force-reprocess found an OK marker, an
\* ERROR marker and no marker, handed all three files to the reader, and the
\* OK marker now says ERROR.
C14_Witness ==
    \E p \in Procs :
        /\ Finished(proc[p])
        /\ proc[p].force_reprocess
        /\ { proc[p].seen[f] : f \in Files } = {"OK", "ERROR", "none"}
        /\ \A f \in Files : proc[p].calls[f] # "no"
        /\ \E f \in Files : proc[p].seen[f] = "OK" /\ marker[f].status = "ERROR"

ExampleNames == {"PROVEEDOR X FAC 0001-00001234", "PROVEEDOR X 0001-00001234 pag2"}

\* C19: the files "PROVEEDOR X FAC 0001-00001234.pdf" and
\* "PROVEEDOR X 0001-00001234 pag2.pdf" yield one (provider, date, voucher) key
\* and, when a run hands both to the reader, they go as one unit of two files.
C19_ExamplePagesGrouped ==
    /\ \A n, m \in ExampleNames : KeyOf(n) = KeyOf(m)
    /\ \A p \in Procs :
          (/\ Finished(proc[p])
           /\ { fileMeta[2].name, fileMeta[3].name } = ExampleNames
           /\ proc[p].wrote[2] # "none"
           /\ proc[p].wrote[3] # "none") =>
              marker[2].group_size = 2 /\ marker[3].group_size = 2

\* ------------------------------------------------------ classifier properties

\* The label of the state has been classified.
Classified == ledger.stage = "classified"

\* The keyword occurs in the normalised text of the label.
Has(k) == Contains(_norm_text(ledger.concept), k)

\* The literal category tokens.
LiteralTokens == {"RET_GAN", "RET_IIBB", "RET_IVA", "IVA_CREDITO", "BANCO"}

NoLiteralToken == \A k \in LiteralTokens : ~Has(k)

\* C16: a label with IVA together with ARANCEL, COMISION or GASTO, and without
\* a literal category token, is classified IVA_CREDITO.
C16_CompositeVat ==
    (/\ Classified
     /\ Has("IVA")
     /\ Has("ARANCEL") \/ Has("COMISION") \/ Has("GASTO")
     /\ NoLiteralToken) => ledger.category = "IVA_CREDITO"

\* The label carries a token of the withholding category.
HasWithholding(cat) ==
    CASE cat = "RET_IIBB" -> Has("INGRESOS") \/ Has("IIBB") \/ Has("SIRTAC")
      [] cat = "RET_GAN" -> Has("GANANCIAS") \/ Has("RG 830")
      [] cat = "RET_IVA" -> Has("IVA") /\ (Has("RET") \/ Has("PERCEP"))

HasExpenseToken == Has("COMISION") \/ Has("CARGO") \/ Has("ARANCEL") \/ Has("GASTO")

\* C17: a label with a token of exactly one withholding category and a generic
\* expense token, and without a literal category token, is classified into
\* that withholding category.
C17_WithholdingBeforeExpense ==
    \A cat \in {"RET_IIBB", "RET_GAN", "RET_IVA"} :
        (/\ Classified
         /\ HasWithholding(cat)
         /\ \A other \in {"RET_IIBB", "RET_GAN", "RET_IVA"} \ {cat} : ~HasWithholding(other)
         /\ HasExpenseToken
         /\ NoLiteralToken) => ledger.category = cat

\* The label matches no keyword besides those of GANANCIAS / RG 830.
OnlyGanancias ==
    /\ Has("GANANCIAS") \/ Has("RG 830")
    /\ \A k \in Keywords \ {"GANANCIAS", "RG 830", "GAN", "RET"} : ~Has(k)

\* C18 as stated: every label gets one of the eight categories; a label whose
\* only keyword is GANANCIAS / RG 830 gets RET_GAN; a label with ARANCEL and
\* no literal category token gets GASTO; a label without any keyword gets OTROS.
C18_FirstMatchArancel ==
    Classified =>
        /\ ledger.category \in CategorySet
        /\ OnlyGanancias => ledger.category = "RET_GAN"
        /\ (Has("ARANCEL") /\ NoLiteralToken) => ledger.category = "GASTO"
        /\ (\A k \in Keywords : ~Has(k)) => ledger.category = "OTROS"

\* The words that make a label a BANCO line before ARANCEL is looked at.
BankWords == {"ACREDITADO", "LIQUIDADO", "NETO DE PAGOS", "NETO A COBRAR", "A DEPOSITAR"}

\* C18 amended: every label gets one of the eight categories; a label whose
\* only keyword is GANANCIAS / RG 830 gets RET_GAN; a label with ARANCEL, no
\* literal category token and none of the words ACREDITADO, LIQUIDADO, NETO DE
\* PAGOS, NETO A COBRAR, A DEPOSITAR gets GASTO, and with one of these words
\* and no literal token BANCO; a label without any keyword gets OTROS.
C18_FirstMatchDefault ==
    Classified =>
        /\ ledger.category \in CategorySet
        /\ OnlyGanancias => ledger.category = "RET_GAN"
        /\ (Has("ARANCEL") /\ NoLiteralToken /\ \A k \in BankWords : ~Has(k)) =>
              ledger.category = "GASTO"
        /\ (NoLiteralToken /\ \E k \in BankWords : Has(k)) => ledger.category = "BANCO"
        /\ (\A k \in Keywords : ~Has(k)) => ledger.category = "OTROS"
        /\ ledger.concept = "RETENCION DE GANANCIAS RG 830" => ledger.category = "RET_GAN"
        /\ ledger.concept = "ARANCEL TARJETA" => ledger.category = "GASTO"
        /\ ledger.concept = "TOTAL PRESENTADO" => ledger.category = "OTROS"

\* C18 witness: "ARANCEL TARJETA" has been classified GASTO.
C18_Witness ==
    /\ Classified
    /\ ledger.concept = "ARANCEL TARJETA"
    /\ ledger.category = "GASTO"

\* ----------------------------------------------------- oracle call properties

\* No client id or no client secret is configured.
CredentialsMissing ==
    Strip(ledger.env.IA_CLIENT_ID) = "" \/ Strip(ledger.env.IA_CLIENT_SECRET) = ""

\* C20: call_backend returns a text that is not empty or raises with a
\* message; it raises when the credentials are not configured, when the HTTP
\* status is not 2xx, when the body is not a JSON object and when the output
\* text is empty.
C20_CallOutcome ==
    ledger.stage = "done" =>
        /\ ledger.outcome.text # ""
        /\ CredentialsMissing => ledger.outcome.kind = "raise"
        /\ (ledger.reply.status \notin 200 .. 299
            \/ ledger.reply.body.json # "object"
            \/ ledger.reply.body.output_text.type \in {"absent", "null"}
            \/ Strip(ledger.reply.body.output_text.v) = "") => ledger.outcome.kind = "raise"

\* ------------------------------------------------------ route lookup properties

\* The run went on without a client id from the lookup: no --idcliente, and
\* the table cannot be read or does not hold the client folder.
Degraded(r) == r.cfg = "ok" /\ routes \in {"unmapped", "unavailable"}

\* C21: when the lookup is unavailable or does not hold the client folder, the
\* folders are processed with client id 1, a warning is given, and a run in
\* which no reader call failed has RESULT=OK in the client log and the run log.
C21_LookupDegrades ==
    \A p \in Procs :
        LET r == proc[p]
        IN Degraded(r) =>
             /\ r.idcliente = DefaultId
             /\ r.warned
             /\ r.result # "none" =>
                   /\ r.folder = NumFolders + 1
                   /\ (\A f \in Files : r.calls[f] # "failed") => r.result = "OK"

\* ------------------------------- reconciliation engine properties, continued

\* The document is of Banco Patagonia and shows a discount breakdown.
HasBreakdown ==
    ledger.pdf_totals.bank_patagonia /\ ledger.pdf_totals.patagonia_desglose # << >>

\* The final ledger is the one every oracle text gives with the same totals.
SameForEveryOracleText ==
    \A o \in OracleTexts :
        _apply_pdf_overrides(_postprocess_output(o), ledger.pdf_totals).lines = ledger.out

\* Lines from..(from + n - 1) of the ledger are the items of the breakdown, in
\* the order of the list, each with minus its amount.
BreakdownAt(from) ==
    LET desglose == ledger.pdf_totals.patagonia_desglose
    IN \A i \in 1 .. Len(desglose) :
         /\ ledger.out[from + i - 1].concept = desglose[i].label
         /\ ledger.out[from + i - 1].total = -desglose[i].amount
         /\ ledger.out[from + i - 1].total < 0

\* C22 as stated: with a discount breakdown the ledger is the TOTAL PRESENTADO
\* line (positive), one negative line per item in list order and the SALDO line
\* (negative), whatever the oracle text is and also when daily rows exist.
C22_BreakdownLedger ==
    (Final /\ HasBreakdown) =>
        LET n == Len(ledger.pdf_totals.patagonia_desglose)
        IN /\ Len(ledger.out) = n + 2
           /\ ledger.out[1].concept = "TOTAL PRESENTADO" /\ ledger.out[1].total > 0
           /\ BreakdownAt(2)
           /\ ledger.out[n + 2].concept = "SALDO" /\ ledger.out[n + 2].total < 0
           /\ SameForEveryOracleText

\* C22: with a discount breakdown the ledger is the TOTAL PRESENTADO line
\* (positive) when a presented total was extracted, one negative line per item
\* in list order, and the SALDO line (negative) when a balance was extracted,
\* whatever the oracle text is and also when daily rows exist.
C22_BreakdownLedgerOfExtracted ==
    (Final /\ HasBreakdown) =>
        LET n == Len(ledger.pdf_totals.patagonia_desglose)
            tp == ledger.pdf_totals.total_presentado
            saldo == ledger.pdf_totals.saldo
            first == IF tp # None THEN 1 ELSE 0
            last == IF saldo # None THEN 1 ELSE 0
        IN /\ Len(ledger.out) = first + n + last
           /\ tp # None =>
                 /\ ledger.out[1].concept = "TOTAL PRESENTADO"
                 /\ ledger.out[1].total = tp[1] /\ ledger.out[1].total > 0
           /\ BreakdownAt(first + 1)
           /\ saldo # None =>
                 /\ ledger.out[first + n + 1].concept = "SALDO"
                 /\ ledger.out[first + n + 1].total = -saldo[1]
                 /\ ledger.out[first + n + 1].total < 0
           /\ SameForEveryOracleText

\* C22 witness: a document with a discount breakdown and daily rows of Banco
\* Nacion, and an oracle text with lines: the ledger is the breakdown's.
C22_Witness ==
    /\ Final /\ HasBreakdown
    /\ ledger.pdf_totals.bank_nacion /\ ledger.pdf_totals.daily_rows # << >>
    /\ ledger.pdf_totals.total_presentado # None /\ ledger.pdf_totals.saldo # None
    /\ Len(ledger.oracle) = MaxLines
    /\ Len(ledger.out) = 3

\* The rows the daily-column branch works on, and their column sums.
UsedRows ==
    _filter_daily_rows_for_bank_nacion(ledger.pdf_totals.daily_rows,
                                       ledger.pdf_totals.total_presentado,
                                       ledger.pdf_totals.neto_header)

UsedTotals == _totals_from_daily_rows(UsedRows)

\* The summed net column differs from the header net by more than
\* max(1.0, 0.2% of the header net).
NetDisagrees ==
    /\ ledger.pdf_totals.neto_header # None
    /\ LET header == ledger.pdf_totals.neto_header[1]
           diff == Abs(Get(UsedTotals, NETO) - header)
       IN diff > 1000 /\ diff * 1000 > header * 2

\* C23: in the daily-column branch, when the summed net column differs from
\* the header net by more than the tolerance, the net line is minus the header
\* net, the sale line is the header net plus the sum of the other charge
\* columns, and the lines sum to zero.
C23_NetForced ==
    (Final /\ ledger.branch = "nacion" /\ NetDisagrees) =>
        LET header == ledger.pdf_totals.neto_header[1]
            charges == SumOver(UsedTotals, DOMAIN UsedTotals \ {VENTAS, NETO})
        IN /\ Carries(ledger.out, NETO, -header)
           /\ Carries(ledger.out, VENTAS, header + charges)
           /\ SumTotals(ledger.out) = 0

\* The VAT sum the overrides work with: 21% of the fee sum when the VAT found is
\* missing or more than 0.05 away from it.
EffectiveVat ==
    LET t == ledger.pdf_totals
    IN IF /\ t.has_daily /\ t.arancel_sum > 0
          /\ (t.iva_sum <= 0 \/ Abs(t.iva_sum - iva_calc(t.arancel_sum)) > 50)
       THEN iva_calc(t.arancel_sum) ELSE t.iva_sum

\* The sum of the charges: fee, VAT, retentions.
ChargeSum ==
    LET t == ledger.pdf_totals
    IN t.arancel_sum + EffectiveVat + t.ret_iva_sum + t.ret_iibb_sum + t.ret_gan_sum

\* The daily totals give a sale sum and at least one charge.
SaleAndCharge == ledger.pdf_totals.has_daily /\ ledger.pdf_totals.ventas_sum > 0 /\ ChargeSum > 0

\* The BANCO line printed for the amount v.
BancoLine(v) == Carries(ledger.out, "BANCO", _round2(-Abs(v)))

\* C24 as stated: in the aggregated branch BANCO is the daily net sum when it
\* is positive, otherwise the header net when one was extracted, otherwise the
\* sale sum minus the sum of the charges.
C24_BancoHeaderFirst ==
    (Final /\ ledger.branch = "override") =>
        LET t == ledger.pdf_totals
        IN BancoLine(IF t.neto_sum > 0 THEN t.neto_sum
                     ELSE IF t.neto_header # None THEN t.neto_header[1]
                     ELSE t.ventas_sum - ChargeSum)

\* C24: in the aggregated branch BANCO is the daily net sum when it is
\* positive; otherwise the sale sum minus the sum of the charges when the daily
\* totals give a positive sale sum and a positive charge; otherwise the header
\* net when one was extracted; otherwise the amount of the oracle text.
C24_BancoDailyFirst ==
    (Final /\ ledger.branch = "override") =>
        LET t == ledger.pdf_totals
        IN BancoLine(IF t.neto_sum > 0 THEN t.neto_sum
                     ELSE IF SaleAndCharge THEN t.ventas_sum - ChargeSum
                     ELSE IF t.neto_header # None THEN t.neto_header[1]
                     ELSE TotalOf(ledger.text, "BANCO"))

\* C24 witness: no daily net sum, a sale sum with charges, and a header net
\* that is another amount: BANCO is the sale sum minus the charges.
C24_Witness ==
    /\ Final /\ ledger.branch = "override"
    /\ ledger.pdf_totals.neto_sum = 0
    /\ SaleAndCharge
    /\ ledger.pdf_totals.neto_header # None
    /\ ledger.pdf_totals.neto_header # << ledger.pdf_totals.ventas_sum - ChargeSum >>
    /\ BancoLine(ledger.pdf_totals.ventas_sum - ChargeSum)
    /\ ~BancoLine(ledger.pdf_totals.neto_header[1])

\* --------------------------------------------------- daily block properties

\* C25: _parse_daily_block returns a row only for a block that holds a sale
\* line and a net line, the sale line not after the net line; a block without
\* one of them gives no row.
C25_BlockBoundaries ==
    (ledger.stage = "parsed" /\ ledger.row # None) =>
        \E i, j \in 1 .. Len(ledger.block) :
            /\ i <= j
            /\ SaleBoundary(ledger.block[i])
            /\ NetBoundary(ledger.block[j])

\* ----------------------------------------------------- run lock properties

\* C26: a run that acquired the lock and ends without being killed -- by
\* returning 0 at the end, by returning 2 for a configuration error, by
\* returning 0 for --idcliente without a route, or by an exception raised while
\* a folder is processed -- has deleted its lock file when it ends.
C26_LockReleasedAtEnd ==
    \A p \in Procs :
        (proc[p].pc = "return" /\ proc[p].acquired) => lock.owner # p

\* C26 witness: a run ends by an exception raised while a folder is processed,
\* and the lock file is gone.
C26_Witness ==
    \E p \in Procs :
        /\ proc[p].pc = "return"
        /\ proc[p].acquired
        /\ proc[p].raised
        /\ lock = NoLock

\* --------------------------------------------------- folder pass properties

\* The files of the folder the run is in that its enumeration found eligible
\* and stable.
PendingOf(r) ==
    { f \in DOMAIN fileMeta :
        /\ FolderOf(f) = r.folder
        /\ r.seen[f] = "none" \/ r.seen[f] = "ERROR" \/ r.force_reprocess
        /\ r.ready[f] = "yes" }

\* The run has the complete list of the units of its folder: no unit has been
\* handed to the reader yet.
JustGrouped(r) == r.pc = "reader" /\ r.cnt.processed = 0

\* The positions << unit, place >> at which file f stands in the units.
PlacesOf(groups, f) ==
    { << i, j >> \in (1 .. Len(groups)) \X (1 .. NumFiles) :
        j <= Len(groups[i]) /\ groups[i][j] = f }

\* C27: the units of a folder partition its pending files: each pending file
\* is in exactly one unit and no other file is in any; in COMPRAS files with
\* the same key are in the same unit, the older first and by name among files
\* of the same age; the units are in the order of the names of their first
\* members.
C27_GrouperPartitions ==
    \A p \in Procs :
        LET r == proc[p]
            groups == r.groups
        IN JustGrouped(r) =>
             /\ \A f \in PendingOf(r) : Cardinality(PlacesOf(groups, f)) = 1
             /\ \A f \in Files \ PendingOf(r) : PlacesOf(groups, f) = {}
             /\ \A i \in 1 .. Len(groups) : groups[i] # << >>
             /\ r.folder = COMPRAS =>
                   \A f, g \in PendingOf(r) :
                       (KeyOf(fileMeta[f].name) # None
                        /\ KeyOf(fileMeta[f].name) = KeyOf(fileMeta[g].name)) =>
                           \E i \in 1 .. Len(groups) :
                               {f, g} \subseteq SetOfSeq(groups[i])
             /\ \A i \in 1 .. Len(groups) : \A j, k \in 1 .. Len(groups[i]) :
                   j < k =>
                     \/ fileMeta[groups[i][j]].age > fileMeta[groups[i][k]].age
                     \/ /\ fileMeta[groups[i][j]].age = fileMeta[groups[i][k]].age
                        /\ groups[i][j] < groups[i][k]
             /\ \A i, k \in 1 .. Len(groups) : i < k => groups[i][1] < groups[k][1]

\* C27 witness: the two COMPRAS files share a key and the one whose name comes
\* second is the older: it is the first of their unit.
C27_Witness ==
    /\ JustGrouped(proc[1])
    /\ proc[1].folder = COMPRAS
    /\ proc[1].groups = << << 3, 2 >> >>
    /\ fileMeta[3].age > fileMeta[2].age

\* C28: a run that ends deletes only the lock it created itself: when the lock
\* is another instance's, the step in which the run releases leaves it alone.
C28_ReleasesOwnLockOnly ==
    [][\A p \in Procs :
          (proc[p].pc = "release" /\ proc'[p].pc = "return"
           /\ lock # NoLock /\ lock.owner # p) => lock' = lock]_vars

\* The files the enumeration of their folder found eligible and stable.
WasPending(r, f) ==
    /\ r.seen[f] = "none" \/ r.seen[f] = "ERROR" \/ r.force_reprocess
    /\ r.ready[f] = "yes"

\* The unit of a pending file: in COMPRAS the pending files with its key, when
\* it has one; otherwise the file alone.
UnitOf(r, f) ==
    IF FolderOf(f) = COMPRAS /\ KeyOf(fileMeta[f].name) # None
    THEN { g \in DOMAIN fileMeta :
             /\ FolderOf(g) = COMPRAS
             /\ WasPending(r, g)
             /\ KeyOf(fileMeta[g].name) = KeyOf(fileMeta[f].name) }
    ELSE { f }

\* The files of the units the run has still to hand to the reader or to mark.
InHand(r) ==
    IF r.pc \in {"reader", "mark"}
    THEN UNION { SetOfSeq(r.groups[i]) : i \in 1 .. Len(r.groups) }
    ELSE {}

\* The unit of f has several files and the run is through with it.
GroupProcessed(r, f) ==
    /\ f \in DOMAIN fileMeta
    /\ WasPending(r, f)
    /\ Cardinality(UnitOf(r, f)) > 1
    /\ r.calls[f] # "no"
    /\ f \notin InHand(r)

\* C29: when the run is through with a unit of several files, each file of it
\* has a marker of this run, all with the same STATUS, OK exactly when the one
\* reader call of the unit succeeded, and with GROUP_SIZE the number of files
\* of the unit.
C29_GroupOutcomeUniform ==
    \A p \in Procs : \A f \in Files :
        LET r == proc[p]
            status == IF r.calls[f] = "ok" THEN "OK" ELSE "ERROR"
        IN GroupProcessed(r, f) =>
             \A g \in UnitOf(r, f) :
                 /\ r.calls[g] = r.calls[f]
                 /\ r.wrote[g] = status
                 /\ marker[g] = [status |-> status, age |-> 0,
                                  group_size |-> Cardinality(UnitOf(r, f))]

\* C29 witness: the reader call for the unit of the two COMPRAS files failed
\* and the run is through with the unit.
C29_Witness ==
    /\ GroupProcessed(proc[1], 2)
    /\ UnitOf(proc[1], 2) = {2, 3}
    /\ proc[1].calls[2] = "failed"
    /\ marker[3].status = "ERROR"

\* The files the enumeration of a folder found in it.
FoundIn(r, folder) ==
    { f \in Files : FolderOf(f) = folder /\ r.seen[f] # "unseen" }

\* _process_folder has returned for the folder before the one the run is at.
Returned(r) == r.pc \in {"folder", "release"} /\ r.folder > TARJETAS

\* C30: the counters _process_folder returns: the files found are the
\* processed, the skipped and the not ready; the errors are at most the
\* processed; processed is the number of files handed to the reader and
\* errors the number of ERROR markers written in the call.
C30_CounterAccounting ==
    \A p \in Procs :
        LET r == proc[p]
            files == FoundIn(r, r.folder - 1)
        IN Returned(r) =>
             /\ Cardinality(files) = r.cnt.processed + r.cnt.skipped + r.cnt.not_ready
             /\ r.cnt.errors <= r.cnt.processed
             /\ r.cnt.processed = Cardinality({ f \in files : r.calls[f] # "no" })
             /\ r.cnt.errors = Cardinality({ f \in files : r.wrote[f] = "ERROR" })

\* C30 witness: the call for COMPRAS has returned with the two files of a unit
\* processed and both in error, after a call for TARJETAS that left its file
\* alone.
C30_Witness ==
    /\ proc[1].pc = "release"
    /\ proc[1].cnt = [processed |-> 2, skipped |-> 0, errors |-> 2, not_ready |-> 0]
    /\ proc[1].total.skipped + proc[1].total.not_ready = 1

====
